---------------------------- MODULE Spec2Model ----------------------------
(***************************************************************************)
(* A model of the HDG convection-diffusion solver of                       *)
(* examples/step-51/step-51.cc: the per-element assembly with static       *)
(* condensation, the reconstruct pass, the post-processing and the         *)
(* refinement cycle that drives them.                                      *)
(*                                                                         *)
(* Conventions.  `double' values are modelled by exact rationals <<n, d>>  *)
(* (d > 0, lowest terms), so identities hold exactly instead of up to      *)
(* round-off.  Vectors are sequences, matrices are sequences of rows, a    *)
(* Tensor<1,dim> is a sequence of length dim.  Indices are 1-based: the    *)
(* source's row 0 is row 1 here, DOF index i of the source is i+1.         *)
(***************************************************************************)
EXTENDS Integers, Sequences, FiniteSets, TLC

(***************************************************************************)
(* double arithmetic, exact                                                *)
(***************************************************************************)
Abs(x) == IF x < 0 THEN -x ELSE x

RECURSIVE GCD(_, _)
GCD(a, b) == IF b = 0 THEN a ELSE GCD(b, a % b)

Rat(n, d) ==
  IF n = 0 THEN <<0, 1>>
  ELSE IF d = 1 THEN <<n, 1>>
  ELSE LET g == GCD(Abs(n), Abs(d))
           s == IF d < 0 THEN -1 ELSE 1
       IN  <<(s * n) \div g, (s * d) \div g>>

R(n) == <<n, 1>>

Zero == <<0, 1>>

One == <<1, 1>>

RAdd(a, b) ==
  IF a[1] = 0 THEN b
  ELSE IF b[1] = 0 THEN a
  ELSE Rat(a[1] * b[2] + b[1] * a[2], a[2] * b[2])

RNeg(a) == <<-a[1], a[2]>>

RSub(a, b) == RAdd(a, RNeg(b))

RMul(a, b) ==
  IF a[1] = 0 \/ b[1] = 0 THEN <<0, 1>>
  ELSE Rat(a[1] * b[1], a[2] * b[2])

RDiv(a, b) == Rat(a[1] * b[2], a[2] * b[1])

RAbs(a) == <<Abs(a[1]), a[2]>>

RPos(a) == a[1] > 0

RECURSIVE RSum(_)
RSum(s) == IF s = <<>> THEN Zero ELSE RAdd(s[1], RSum(Tail(s)))

(* Tensor<1,dim> * Tensor<1,dim>: the scalar product *)
Dot(a, b) == RSum([d \in 1..Len(a) |-> RMul(a[d], b[d])])

(***************************************************************************)
(* Vector<double> and FullMatrix<double>                                   *)
(***************************************************************************)
(* a sequence given as a function on 1..n, written out element by element *)
AsSeq(s) == s \o <<>>

(* a matrix given as a function of functions, written out *)
AsMat(A) == AsSeq([i \in 1..Len(A) |-> AsSeq(A[i])])

ZeroVec(n) == AsSeq([i \in 1..n |-> Zero])

ZeroMat(m, n) == AsMat([i \in 1..m |-> [j \in 1..n |-> Zero]])

NCols(A) == IF Len(A) = 0 THEN 0 ELSE Len(A[1])

VecAdd(x, y) == AsSeq([i \in 1..Len(x) |-> RAdd(x[i], y[i])])

VecSub(x, y) == AsSeq([i \in 1..Len(x) |-> RSub(x[i], y[i])])

MatAdd(A, B) == AsSeq([i \in 1..Len(A) |-> VecAdd(A[i], B[i])])

MatSub(A, B) == AsSeq([i \in 1..Len(A) |-> VecSub(A[i], B[i])])

(* the product A*B *)
MatMul(A, B) ==
  AsMat([i \in 1..Len(A) |->
           [j \in 1..NCols(B) |->
              RSum([k \in 1..Len(B) |-> RMul(A[i][k], B[k][j])])]])

(* the product A*x *)
MatVec(A, x) ==
  AsSeq([i \in 1..Len(A) |-> RSum([k \in 1..Len(x) |-> RMul(A[i][k], x[k])])])

(* FullMatrix::mmult(C, B, adding): C = A*B, or C += A*B when adding *)
mmult(A, C, B, adding) == IF adding THEN MatAdd(C, MatMul(A, B)) ELSE MatMul(A, B)

(* FullMatrix::vmult(w, v): w = A*v *)
vmult(A, v) == MatVec(A, v)

(* FullMatrix::vmult_add(w, v): w += A*v *)
vmult_add(A, w, v) == VecAdd(w, MatVec(A, v))

IdentityMat(n) ==
  AsMat([i \in 1..n |-> [j \in 1..n |-> IF i = j THEN One ELSE Zero]])

(* rows of the augmented matrix after eliminating column k with pivot row p *)
GJStep(M, k, p) ==
  LET n   == Len(M)
      sw  == AsSeq([i \in 1..n |->
                      IF i = k THEN M[p] ELSE IF i = p THEN M[k] ELSE M[i]])
      piv == sw[k][k]
      prow == AsSeq([j \in 1..Len(sw[k]) |-> RDiv(sw[k][j], piv)])
  IN  AsMat([i \in 1..n |->
               IF i = k THEN prow
               ELSE [j \in 1..Len(sw[i]) |->
                       RSub(sw[i][j], RMul(sw[i][k], prow[j]))]])

RECURSIVE GJLoop(_, _)
GJLoop(M, k) ==
  IF k > Len(M) THEN [regular |-> TRUE, M |-> M]
  ELSE LET cand == {i \in k..Len(M) : M[i][k] # Zero}
       IN  IF cand = {} THEN [regular |-> FALSE, M |-> M]
           ELSE LET p == CHOOSE i \in cand :
                           \A j \in cand :
                             LET a == RAbs(M[i][k])
                                 b == RAbs(M[j][k])
                             IN  \/ RPos(RSub(a, b))
                                 \/ (a = b /\ i <= j)
                IN  GJLoop(GJStep(M, k, p), k + 1)

(* FullMatrix::gauss_jordan(): the matrix replaced by its inverse, by      *)
(* Gauss-Jordan elimination with partial pivoting; regular = FALSE when no *)
(* pivot is left, and then the content is whatever the elimination left.   *)
gauss_jordan(A) ==
  LET n   == Len(A)
      aug == AsSeq([i \in 1..n |-> A[i] \o IdentityMat(n)[i]])
      r   == GJLoop(aug, 1)
  IN  [regular |-> r.regular,
       inverse |-> AsSeq([i \in 1..n |-> SubSeq(r.M[i], n + 1, 2 * n)])]


(***************************************************************************)
(* Elements.  What FEValues / FEFaceValues, the quadrature rules, the      *)
(* mesh and the equation data hand to the assembly for one cell is a       *)
(* record of tables:                                                       *)
(*   n_loc, n_tr, n_post   dofs_per_cell of fe_local, fe, fe_u_post        *)
(*   vol[q]                JxW, rhs_value, convection and, per local dof,  *)
(*                         q_phi, q_phi_div, u_phi, u_phi_grad             *)
(*   faces[f]              at_boundary, boundary_indicator, the two        *)
(*                         support lists and pts[q]: JxW, normal,          *)
(*                         convection, neumann_value, solution_value,      *)
(*                         q_phi, u_phi (per local dof) and tr_phi (per    *)
(*                         skeleton dof)                                   *)
(*   post[q]               JxW, shape_value, shape_grad (per recovery      *)
(*                         dof), loc_u, loc_q (per local dof)              *)
(*   dof_indices, loc_dof_indices, post_dof_indices   the global indices   *)
(***************************************************************************)
SeqRange(a, b) == AsSeq([i \in 1..(b - a + 1) |-> a + i - 1])

(* FE_DGQ(0)^1 x FE_DGQ(0), FE_FaceQ(0), FE_DGQ(1) on an interval of       *)
(* length h; recovery space tabulated at the two end points                *)
ElemP0Line(h, c, f, g, atb, bi, tr0, loc0, post0) ==
  LET q  == <<<<One>>, <<Zero>>>>
      u  == <<Zero, One>>
      z  == <<<<Zero>>, <<Zero>>>>
      pt(nrm, tr) == [JxW |-> One, normal |-> <<R(nrm)>>, convection |-> <<R(c)>>,
                      neumann_value |-> R(g), solution_value |-> R(g),
                      q_phi |-> q, u_phi |-> u, tr_phi |-> tr]
      pp(sv) == [JxW |-> RDiv(h, R(2)), shape_value |-> sv,
                    shape_grad |-> <<<<RDiv(R(-1), h)>>, <<RDiv(One, h)>>>>,
                    loc_u |-> u, loc_q |-> q]
  IN  [dim |-> 1, n_loc |-> 2, n_tr |-> 2, n_post |-> 2,
       vol |-> <<[JxW |-> h, rhs_value |-> R(f), convection |-> <<R(c)>>,
                  q_phi |-> q, q_phi_div |-> <<Zero, Zero>>,
                  u_phi |-> u, u_phi_grad |-> z]>>,
       faces |-> <<[at_boundary |-> atb[1], boundary_indicator |-> bi[1],
                    loc_support |-> <<1, 2>>, tr_support |-> <<1>>,
                    pts |-> <<pt(-1, <<One, Zero>>)>>],
                   [at_boundary |-> atb[2], boundary_indicator |-> bi[2],
                    loc_support |-> <<1, 2>>, tr_support |-> <<2>>,
                    pts |-> <<pt(1, <<Zero, One>>)>>]>>,
       post |-> <<pp(<<One, Zero>>), pp(<<Zero, One>>)>>,
       dof_indices |-> SeqRange(tr0 + 1, tr0 + 2),
       loc_dof_indices |-> SeqRange(loc0 + 1, loc0 + 2),
       post_dof_indices |-> SeqRange(post0 + 1, post0 + 2)]

(* FE_DGQ(1)^1 x FE_DGQ(1), FE_FaceQ(1), FE_DGQ(2) on an interval of       *)
(* length h, tabulated at the nodes: local dofs 1,2 are the flux at the    *)
(* left and right end, 3,4 the scalar at the left and right end            *)
ElemP1Line(h, c, f, g, atb, bi, tr0, loc0, post0) ==
  LET dl == RDiv(R(-1), h)
      dr == RDiv(One, h)
      half == Rat(1, 2)
      vq(l, r) == [JxW |-> RDiv(h, R(2)), rhs_value |-> R(f), convection |-> <<R(c)>>,
                   q_phi |-> <<<<l>>, <<r>>, <<Zero>>, <<Zero>>>>,
                   q_phi_div |-> <<dl, dr, Zero, Zero>>,
                   u_phi |-> <<Zero, Zero, l, r>>,
                   u_phi_grad |-> <<<<Zero>>, <<Zero>>, <<dl>>, <<dr>>>>]
      pt(nrm, l, r, tr) ==
        [JxW |-> One, normal |-> <<R(nrm)>>, convection |-> <<R(c)>>,
         neumann_value |-> R(g), solution_value |-> R(g),
         q_phi |-> <<<<l>>, <<r>>, <<Zero>>, <<Zero>>>>,
         u_phi |-> <<Zero, Zero, l, r>>, tr_phi |-> tr]
      pp(w, sv, ga, gm, gb, l, r) ==
        [JxW |-> RDiv(RMul(R(w), h), R(6)), shape_value |-> sv,
         shape_grad |-> <<<<RDiv(R(ga), h)>>, <<RDiv(R(gm), h)>>, <<RDiv(R(gb), h)>>>>,
         loc_u |-> <<Zero, Zero, l, r>>,
         loc_q |-> <<<<l>>, <<r>>, <<Zero>>, <<Zero>>>>]
  IN  [dim |-> 1, n_loc |-> 4, n_tr |-> 2, n_post |-> 3,
       vol |-> <<vq(One, Zero), vq(Zero, One)>>,
       faces |-> <<[at_boundary |-> atb[1], boundary_indicator |-> bi[1],
                    loc_support |-> <<1, 3>>, tr_support |-> <<1>>,
                    pts |-> <<pt(-1, One, Zero, <<One, Zero>>)>>],
                   [at_boundary |-> atb[2], boundary_indicator |-> bi[2],
                    loc_support |-> <<2, 4>>, tr_support |-> <<2>>,
                    pts |-> <<pt(1, Zero, One, <<Zero, One>>)>>]>>,
       post |-> <<pp(1, <<One, Zero, Zero>>, -3, 4, -1, One, Zero),
                  pp(4, <<Zero, One, Zero>>, -1, 0, 1, half, half),
                  pp(1, <<Zero, Zero, One>>, 1, -4, 3, Zero, One)>>,
       dof_indices |-> SeqRange(tr0 + 1, tr0 + 2),
       loc_dof_indices |-> SeqRange(loc0 + 1, loc0 + 4),
       post_dof_indices |-> SeqRange(post0 + 1, post0 + 3)]

(* FE_DGQ(0)^2 x FE_DGQ(0), FE_FaceQ(0), FE_DGQ(1) on a square of side h    *)
(* with convection c = <<cx, cy>>: local dofs 1,2 are the flux components, *)
(* 3 the scalar; faces in deal.II's order left, right, bottom, top;        *)
(* recovery space tabulated at the four vertices                           *)
ElemP0Quad(h, c, f, g, atb, bi, tr0, loc0, post0) ==
  LET cv == <<R(c[1]), R(c[2])>>
      q  == <<<<One, Zero>>, <<Zero, One>>, <<Zero, Zero>>>>
      u  == <<Zero, Zero, One>>
      nrm == <<<<-1, 0>>, <<1, 0>>, <<0, -1>>, <<0, 1>>>>
      node == <<<<0, 0>>, <<1, 0>>, <<0, 1>>, <<1, 1>>>>
      face(k) == [at_boundary |-> atb[k], boundary_indicator |-> bi[k],
                  loc_support |-> <<1, 2, 3>>, tr_support |-> <<k>>,
                  pts |-> <<[JxW |-> h,
                             normal |-> <<R(nrm[k][1]), R(nrm[k][2])>>,
                             convection |-> cv, neumann_value |-> R(g),
                             solution_value |-> R(g),
                             q_phi |-> q, u_phi |-> u,
                             tr_phi |-> AsSeq([j \in 1..4 |-> IF j = k THEN One ELSE Zero])]>>]
      pp(n) == LET x == node[n][1]
                   y == node[n][2]
               IN  [JxW |-> RDiv(RMul(h, h), R(4)),
                    shape_value |-> AsSeq([j \in 1..4 |-> IF j = n THEN One ELSE Zero]),
                    shape_grad |-> <<<<RDiv(R(y - 1), h), RDiv(R(x - 1), h)>>,
                                     <<RDiv(R(1 - y), h), RDiv(R(-x), h)>>,
                                     <<RDiv(R(-y), h), RDiv(R(1 - x), h)>>,
                                     <<RDiv(R(y), h), RDiv(R(x), h)>>>>,
                    loc_u |-> u, loc_q |-> q]
  IN  [dim |-> 2, n_loc |-> 3, n_tr |-> 4, n_post |-> 4,
       vol |-> <<[JxW |-> RMul(h, h), rhs_value |-> R(f), convection |-> cv,
                  q_phi |-> q, q_phi_div |-> <<Zero, Zero, Zero>>,
                  u_phi |-> u,
                  u_phi_grad |-> <<<<Zero, Zero>>, <<Zero, Zero>>, <<Zero, Zero>>>>]>>,
       faces |-> AsSeq([k \in 1..4 |-> face(k)]),
       post |-> AsSeq([n \in 1..4 |-> pp(n)]),
       dof_indices |-> SeqRange(tr0 + 1, tr0 + 4),
       loc_dof_indices |-> SeqRange(loc0 + 1, loc0 + 3),
       post_dof_indices |-> SeqRange(post0 + 1, post0 + 4)]

(***************************************************************************)
(* assemble_system_one_cell: the local blocks as the quadrature loops      *)
(* populate them, then the elimination                                     *)
(***************************************************************************)
TauStabDiffusion == 5

(* tau_stab without its diffusion part: |convection * normal| alone *)
tau_stab_convective(convection, normal) == RAbs(Dot(convection, normal))

(* tau_stab = tau_stab_diffusion + |convection * normal| *)
tau_stab(convection, normal) ==
  RAdd(R(TauStabDiffusion), RAbs(Dot(convection, normal)))

(* the sum over every face and every face quadrature point *)
FaceSum(cell, F(_, _)) ==
  RSum([f \in 1..Len(cell.faces) |->
          RSum([q \in 1..Len(cell.faces[f].pts) |->
                  F(cell.faces[f], cell.faces[f].pts[q])])])

(* the sum of X(i) over the positions i of a support list that hold dof a *)
AtDof(support, a, X(_)) ==
  RSum([i \in 1..Len(support) |-> IF support[i] = a THEN X(i) ELSE Zero])

(* ll_matrix: the volume loop and the face penalty tau * u_i * u_j *)
ll_assembled(cell) ==
  AsMat(
  [a \in 1..cell.n_loc |-> [b \in 1..cell.n_loc |->
     LET V(q) == RMul(RSub(RAdd(RSub(Dot(q.q_phi[a], q.q_phi[b]),
                                     RMul(q.q_phi_div[a], q.u_phi[b])),
                                RMul(q.u_phi[a], q.q_phi_div[b])),
                           RMul(Dot(q.u_phi_grad[a], q.convection), q.u_phi[b])),
                      q.JxW)
         F(face, pt) ==
           LET sup == face.loc_support
               tau == tau_stab(pt.convection, pt.normal)
               X(i) == LET Y(j) == RMul(RMul(RMul(tau, pt.u_phi[sup[i]]),
                                             pt.u_phi[sup[j]]), pt.JxW)
                       IN  AtDof(sup, b, Y)
           IN  AtDof(sup, a, X)
     IN  RAdd(RSum([q \in 1..Len(cell.vol) |-> V(cell.vol[q])]),
              FaceSum(cell, F))]])

(* l_rhs after the volume loop: u_i * rhs_value * JxW *)
l_rhs_source(cell) ==
  AsSeq(
  [a \in 1..cell.n_loc |->
     RSum([q \in 1..Len(cell.vol) |->
             RMul(RMul(cell.vol[q].u_phi[a], cell.vol[q].rhs_value),
                  cell.vol[q].JxW)])])

(* fe_face_values.get_function_values (solution, trace_values), at one     *)
(* face quadrature point                                                   *)
trace_value(cell, pt, solution) ==
  RSum([j \in 1..cell.n_tr |-> RMul(solution[cell.dof_indices[j]], pt.tr_phi[j])])

(* what the reconstruct pass subtracts from l_rhs on the faces *)
l_rhs_trace(cell, solution) ==
  AsSeq(
  [a \in 1..cell.n_loc |->
     LET F(face, pt) ==
           LET sup == face.loc_support
               tau == tau_stab(pt.convection, pt.normal)
               cn  == Dot(pt.convection, pt.normal)
               X(i) == RMul(RMul(RAdd(Dot(pt.q_phi[sup[i]], pt.normal),
                                      RMul(pt.u_phi[sup[i]], RSub(cn, tau))),
                                 trace_value(cell, pt, solution)), pt.JxW)
           IN  AtDof(sup, a, X)
     IN  FaceSum(cell, F)])

(* lf_matrix, populated on the pre-solve pass only *)
lf_assembled(cell) ==
  AsMat(
  [a \in 1..cell.n_loc |-> [b \in 1..cell.n_tr |->
     LET F(face, pt) ==
           LET sup == face.loc_support
               tsup == face.tr_support
               tau == tau_stab(pt.convection, pt.normal)
               cn  == Dot(pt.convection, pt.normal)
               X(i) == LET Y(j) == RMul(RMul(RAdd(Dot(pt.q_phi[sup[i]], pt.normal),
                                                  RMul(RSub(cn, tau), pt.u_phi[sup[i]])),
                                             pt.tr_phi[tsup[j]]), pt.JxW)
                       IN  AtDof(tsup, b, Y)
           IN  AtDof(sup, a, X)
     IN  FaceSum(cell, F)]])

(* fl_matrix, populated on the pre-solve pass only (note the -=) *)
fl_assembled(cell) ==
  AsMat(
  [b \in 1..cell.n_tr |-> [a \in 1..cell.n_loc |->
     LET F(face, pt) ==
           LET sup == face.loc_support
               tsup == face.tr_support
               tau == tau_stab(pt.convection, pt.normal)
               X(i) == LET Y(j) == RMul(RMul(RAdd(Dot(pt.q_phi[sup[i]], pt.normal),
                                                  RMul(tau, pt.u_phi[sup[i]])),
                                             pt.tr_phi[tsup[j]]), pt.JxW)
                       IN  AtDof(tsup, b, Y)
           IN  AtDof(sup, a, X)
     IN  RNeg(FaceSum(cell, F))]])

(* ff_matrix, populated on the pre-solve pass only *)
ff_assembled(cell) ==
  AsMat(
  [a \in 1..cell.n_tr |-> [b \in 1..cell.n_tr |->
     LET F(face, pt) ==
           LET tsup == face.tr_support
               tau == tau_stab(pt.convection, pt.normal)
               cn  == Dot(pt.convection, pt.normal)
               X(i) == LET Y(j) == RMul(RMul(RMul(RSub(cn, tau), pt.tr_phi[tsup[i]]),
                                             pt.tr_phi[tsup[j]]), pt.JxW)
                       IN  AtDof(tsup, b, Y)
           IN  AtDof(tsup, a, X)
     IN  FaceSum(cell, F)]])

NeumannIndicator == 1

(* the Neumann injection tied to the indicator setup_system() constrains *)
IsNeumannFace_zero(face) ==
  face.at_boundary /\ face.boundary_indicator = 0

(* the face gets the Neumann injection: at the boundary with indicator 1 *)
IsNeumannFace(face) ==
  face.at_boundary /\ face.boundary_indicator = NeumannIndicator

(* f_rhs, populated on the pre-solve pass only: the Neumann injection *)
f_rhs_assembled(cell) ==
  AsSeq(
  [a \in 1..cell.n_tr |->
     LET F(face, pt) ==
           LET tsup == face.tr_support
               X(i) == RMul(RMul(pt.tr_phi[tsup[i]], pt.neumann_value), pt.JxW)
           IN  IF IsNeumannFace(face) THEN AtDof(tsup, a, X) ELSE Zero
     IN  RNeg(FaceSum(cell, F))])

(* l_rhs on the reconstruct pass with the trace part added: += for the -=  *)
(* of the face loop                                                        *)
l_rhs_reconstruct_added(cell, solution) ==
  VecAdd(l_rhs_source(cell), l_rhs_trace(cell, solution))

(* l_rhs on the reconstruct pass: the source part minus the trace part *)
l_rhs_reconstruct(cell, solution) ==
  VecSub(l_rhs_source(cell), l_rhs_trace(cell, solution))

(* ScratchData::ScratchData: the blocks sized by the two elements *)
ScratchData(n_loc, n_tr, trace_reconstruct) ==
  [ll_matrix |-> ZeroMat(n_loc, n_loc), lf_matrix |-> ZeroMat(n_loc, n_tr),
   fl_matrix |-> ZeroMat(n_tr, n_loc), tmp_matrix |-> ZeroMat(n_tr, n_loc),
   ff_matrix |-> ZeroMat(n_tr, n_tr), l_rhs |-> ZeroVec(n_loc),
   f_rhs |-> ZeroVec(n_tr), tmp_rhs |-> ZeroVec(n_loc),
   trace_reconstruct |-> trace_reconstruct]

(* PerTaskData::PerTaskData *)
PerTaskData(n_dofs, trace_reconstruct) ==
  [cell_matrix |-> ZeroMat(n_dofs, n_dofs), cell_vector |-> ZeroVec(n_dofs),
   dof_indices |-> AsSeq([i \in 1..n_dofs |-> 0]),
   trace_reconstruct |-> trace_reconstruct]

(* a matrix and a vector set to 0: the sizes stay *)
ZeroLike(A) == AsMat([i \in 1..Len(A) |-> [j \in 1..Len(A[i]) |-> Zero]])

(* ll_matrix set to 0 with the blocks of the pre-solve pass, under the     *)
(* test of the flag                                                        *)
zero_blocks_by_mode(scratch) ==
  LET tr == scratch.trace_reconstruct
  IN  [scratch EXCEPT
         !.ll_matrix = IF tr THEN @ ELSE ZeroLike(@),
         !.l_rhs = ZeroVec(Len(@)),
         !.lf_matrix = IF tr THEN @ ELSE ZeroLike(@),
         !.fl_matrix = IF tr THEN @ ELSE ZeroLike(@),
         !.ff_matrix = IF tr THEN @ ELSE ZeroLike(@),
         !.f_rhs = IF tr THEN @ ELSE ZeroVec(Len(@))]

(* the blocks left as the cell before left them *)
zero_blocks_skipped(scratch) == scratch

(* the head of assemble_system_one_cell: ll_matrix and l_rhs are set to 0  *)
(* in both modes, lf, fl, ff and f_rhs on the pre-solve pass only          *)
zero_blocks(scratch) ==
  LET tr == scratch.trace_reconstruct
  IN  [scratch EXCEPT
         !.ll_matrix = ZeroLike(@),
         !.l_rhs = ZeroVec(Len(@)),
         !.lf_matrix = IF tr THEN @ ELSE ZeroLike(@),
         !.fl_matrix = IF tr THEN @ ELSE ZeroLike(@),
         !.ff_matrix = IF tr THEN @ ELSE ZeroLike(@),
         !.f_rhs = IF tr THEN @ ELSE ZeroVec(Len(@))]

(* the loops adding to lf, fl, ff and f_rhs whatever the mode *)
populate_every_block(cell, scratch, solution) ==
  LET tr == scratch.trace_reconstruct
  IN  [zero_blocks(scratch) EXCEPT
         !.ll_matrix = MatAdd(@, ll_assembled(cell)),
         !.l_rhs = VecAdd(@, IF tr THEN l_rhs_reconstruct(cell, solution)
                                   ELSE l_rhs_source(cell)),
         !.lf_matrix = MatAdd(@, lf_assembled(cell)),
         !.fl_matrix = MatAdd(@, fl_assembled(cell)),
         !.ff_matrix = MatAdd(@, ff_assembled(cell)),
         !.f_rhs = VecAdd(@, f_rhs_assembled(cell))]

(* the scratch blocks when the quadrature loops are through, just before   *)
(* the elimination: the loops add to ll_matrix and l_rhs in both modes, to *)
(* lf, fl, ff and f_rhs on the pre-solve pass only                         *)
populate(cell, scratch, solution) ==
  LET tr == scratch.trace_reconstruct
  IN  [zero_blocks(scratch) EXCEPT
         !.ll_matrix = MatAdd(@, ll_assembled(cell)),
         !.l_rhs = VecAdd(@, IF tr THEN l_rhs_reconstruct(cell, solution)
                                   ELSE l_rhs_source(cell)),
         !.lf_matrix = IF tr THEN @ ELSE MatAdd(@, lf_assembled(cell)),
         !.fl_matrix = IF tr THEN @ ELSE MatAdd(@, fl_assembled(cell)),
         !.ff_matrix = IF tr THEN @ ELSE MatAdd(@, ff_assembled(cell)),
         !.f_rhs = IF tr THEN @ ELSE VecAdd(@, f_rhs_assembled(cell))]

(* condense with the third product overwriting ff_matrix: the adding flag  *)
(* of tmp_matrix.mmult (ff_matrix, lf_matrix, true) left out               *)
condense_overwrite(s, ll) ==
  LET tmp == mmult(s.fl_matrix, s.tmp_matrix, ll, FALSE)
  IN  [s EXCEPT !.ll_matrix = ll,
                !.tmp_matrix = tmp,
                !.f_rhs = vmult_add(tmp, s.f_rhs, s.l_rhs),
                !.ff_matrix = mmult(tmp, s.ff_matrix, s.lf_matrix, FALSE)]

(* the three products of the pre-solve elimination, ll being inverted:     *)
(*   fl_matrix.mmult(tmp_matrix, ll_matrix)                                *)
(*   tmp_matrix.vmult_add(f_rhs, l_rhs)                                    *)
(*   tmp_matrix.mmult(ff_matrix, lf_matrix, true)                          *)
condense(s, ll) ==
  LET tmp == mmult(s.fl_matrix, s.tmp_matrix, ll, FALSE)
  IN  [s EXCEPT !.ll_matrix = ll,
                !.tmp_matrix = tmp,
                !.f_rhs = vmult_add(tmp, s.f_rhs, s.l_rhs),
                !.ff_matrix = mmult(tmp, s.ff_matrix, s.lf_matrix, TRUE)]

(* assemble_system_one_cell: regular tells whether gauss_jordan found its  *)
(* pivots; local_values is what set_dof_values writes to solution_local at *)
(* the cell's interior dofs (reconstruct pass only)                        *)
assemble_system_one_cell(cell, scratch, task_data, solution) ==
  LET p  == populate(cell, scratch, solution)
      gj == gauss_jordan(p.ll_matrix)
  IN  IF scratch.trace_reconstruct = FALSE
      THEN LET s == condense(p, gj.inverse)
           IN  [regular |-> gj.regular, scratch |-> s,
                task_data |-> [task_data EXCEPT
                                 !.dof_indices = cell.dof_indices,
                                 !.cell_matrix = s.ff_matrix,
                                 !.cell_vector = s.f_rhs],
                local_values |-> <<>>]
      ELSE LET x == vmult(gj.inverse, p.l_rhs)
           IN  [regular |-> gj.regular,
                scratch |-> [p EXCEPT !.ll_matrix = gj.inverse, !.tmp_rhs = x],
                task_data |-> task_data,
                local_values |-> x]

(* the entries of a global vector at the given indices replaced *)
SetAt(vec, indices, values) ==
  AsSeq(
  [i \in 1..Len(vec) |->
     IF \E k \in 1..Len(indices) : indices[k] = i
     THEN values[CHOOSE k \in 1..Len(indices) : indices[k] = i]
     ELSE vec[i]])

(* the entries of a global vector at the given indices added to *)
AddAt(vec, indices, values) ==
  AsSeq(
  [i \in 1..Len(vec) |->
     RAdd(vec[i], RSum([k \in 1..Len(indices) |->
                          IF indices[k] = i THEN values[k] ELSE Zero]))])

(* every cell writing through the first cell's indices *)
reconstruct_indices_first(cells, c) == cells[1].loc_dof_indices

(* the interior dofs the reconstruct pass writes for a cell:               *)
(* loc_cell->set_dof_values (tmp_rhs, solution_local)                      *)
reconstruct_indices(cells, c) == cells[c].loc_dof_indices

(* ConstraintMatrix::distribute_local_to_global: the local contribution    *)
(* added at the global indices with the constrained dofs eliminated: their *)
(* rows and columns are left out, the known values go to the right-hand    *)
(* side, and the diagonal of a constrained dof gets a positive entry       *)
distribute_local_to_global(m, v, idx, A, b, cons) ==
  LET C == DOMAIN cons
      n == Len(idx)
  IN  [A |-> AsMat([I \in 1..Len(A) |-> [J \in 1..Len(A) |->
                RAdd(A[I][J],
                     RSum([i \in 1..n |-> RSum([j \in 1..n |->
                        IF idx[i] = I /\ idx[j] = J
                        THEN IF I \notin C /\ J \notin C THEN m[i][j]
                             ELSE IF I = J /\ i = j THEN RAbs(m[i][i])
                             ELSE Zero
                        ELSE Zero])]))]]),
       b |-> AsSeq([I \in 1..Len(b) |->
                RAdd(b[I],
                     RSum([i \in 1..n |->
                        IF idx[i] = I /\ I \notin C
                        THEN RSub(v[i],
                                  RSum([j \in 1..n |->
                                     IF idx[j] \in C
                                     THEN RMul(m[i][j], cons[idx[j]])
                                     ELSE Zero]))
                        ELSE Zero]))])]

(* copy_local_to_global adding the blocks of task_data a second time *)
copy_local_to_global_twice(data, A, b, cons) ==
  IF data.trace_reconstruct = FALSE
  THEN LET once == distribute_local_to_global(data.cell_matrix, data.cell_vector,
                                              data.dof_indices, A, b, cons)
       IN  distribute_local_to_global(data.cell_matrix, data.cell_vector,
                                      data.dof_indices, once.A, once.b, cons)
  ELSE [A |-> A, b |-> b]

(* copy_local_to_global: a no-op on the reconstruct pass *)
copy_local_to_global(data, A, b, cons) ==
  IF data.trace_reconstruct = FALSE
  THEN distribute_local_to_global(data.cell_matrix, data.cell_vector,
                                  data.dof_indices, A, b, cons)
  ELSE [A |-> A, b |-> b]

(* ConstraintMatrix::distribute: the constrained dofs set to their values *)
distribute(cons, vec) ==
  AsSeq(
  [i \in 1..Len(vec) |-> IF i \in DOMAIN cons THEN cons[i] ELSE vec[i]])

(***************************************************************************)
(* postprocess(): the recovery system of one cell                          *)
(***************************************************************************)
(* fe_values_local[scalar].get_function_values (solution_local, u_values) *)
u_value(cell, pt, solution_local) ==
  RSum([k \in 1..cell.n_loc |->
          RMul(solution_local[cell.loc_dof_indices[k]], pt.loc_u[k])])

(* fe_values_local[fluxes].get_function_values (solution_local, u_gradients) *)
u_gradient(cell, pt, solution_local) ==
  AsSeq(
  [d \in 1..cell.dim |->
     RSum([k \in 1..cell.n_loc |->
             RMul(solution_local[cell.loc_dof_indices[k]], pt.loc_q[k][d])])])

PostSum(cell, X(_)) == RSum([q \in 1..Len(cell.post) |-> X(cell.post[q])])

(* cell_matrix with the mass-matrix row of the first shape function in row *)
(* 0 (here 1)                                                              *)
post_matrix_mass_row(cell) ==
  AsMat([i \in 1..cell.n_post |-> [j \in 1..cell.n_post |->
     LET G(pt) == RMul(Dot(pt.shape_grad[i], pt.shape_grad[j]), pt.JxW)
         M(pt) == RMul(RMul(pt.shape_value[1], pt.shape_value[j]), pt.JxW)
     IN  IF i = 1 THEN PostSum(cell, M) ELSE PostSum(cell, G)]])

(* cell_matrix before its inversion: rows i > 0 of the source (here i > 1) *)
(* are the gradient products, row 0 (here 1) the integrals of the shape    *)
(* functions                                                               *)
post_matrix(cell) ==
  AsMat(
  [i \in 1..cell.n_post |-> [j \in 1..cell.n_post |->
     LET G(pt) == RMul(Dot(pt.shape_grad[i], pt.shape_grad[j]), pt.JxW)
         M(pt) == RMul(pt.shape_value[j], pt.JxW)
     IN  IF i = 1 THEN PostSum(cell, M) ELSE PostSum(cell, G)]])

(* cell_rhs with row 0 (here 1) built like the other rows: the special     *)
(* case of the first row left out                                          *)
post_rhs_gradient_only(cell, solution_local) ==
  AsSeq([i \in 1..cell.n_post |->
     LET G(pt) == RMul(Dot(pt.shape_grad[i], u_gradient(cell, pt, solution_local)),
                       pt.JxW)
     IN  RNeg(PostSum(cell, G))])

(* cell_rhs: minus the gradient tested with the reconstructed flux, and in *)
(* row 0 (here 1) the integral of the reconstructed scalar                 *)
post_rhs(cell, solution_local) ==
  AsSeq(
  [i \in 1..cell.n_post |->
     LET G(pt) == RMul(Dot(pt.shape_grad[i], u_gradient(cell, pt, solution_local)),
                       pt.JxW)
         U(pt) == RMul(u_value(cell, pt, solution_local), pt.JxW)
     IN  IF i = 1 THEN PostSum(cell, U) ELSE RNeg(PostSum(cell, G))])

(* one pass of the loop over the cells: cell_matrix.gauss_jordan(),        *)
(* cell_matrix.vmult(cell_sol, cell_rhs)                                   *)
postprocess_cell(cell, solution_local) ==
  LET gj  == gauss_jordan(post_matrix(cell))
      rhs == post_rhs(cell, solution_local)
  IN  [regular |-> gj.regular, cell_matrix |-> gj.inverse, cell_rhs |-> rhs,
       cell_sol |-> vmult(gj.inverse, rhs)]

(* the recovery dofs cell->distribute_local_to_global (cell_sol,           *)
(* solution_u_post) adds to                                                *)
postprocess_indices(cells, c) == cells[c].post_dof_indices

(***************************************************************************)
(* setup_system()                                                          *)
(***************************************************************************)
MaxOf(S) == IF S = {} THEN 0 ELSE CHOOSE m \in S : \A x \in S : x <= m

Range(seq) == {seq[i] : i \in 1..Len(seq)}

(* dof_handler.n_dofs(), dof_handler_local.n_dofs(), dof_handler_u_post.n_dofs() *)
n_dofs(cells) ==
  MaxOf(UNION {Range(cells[c].dof_indices) : c \in 1..Len(cells)})

n_dofs_local(cells) ==
  MaxOf(UNION {Range(cells[c].loc_dof_indices) : c \in 1..Len(cells)})

n_dofs_u_post(cells) ==
  MaxOf(UNION {Range(cells[c].post_dof_indices) : c \in 1..Len(cells)})

DirichletIndicator == 0

(* boundary_functions[0] = &solution_function: the faces whose skeleton    *)
(* dofs project_boundary_values constrains                                 *)
IsDirichletFace(face) ==
  face.at_boundary /\ face.boundary_indicator = DirichletIndicator

(* VectorTools::project_boundary_values on one face: the L2 projection of  *)
(* the boundary function onto the face's skeleton dofs, per position of    *)
(* the support list                                                        *)
project_face(face) ==
  LET sup == face.tr_support
      n   == Len(sup)
      M   == AsMat([a \in 1..n |-> [b \in 1..n |->
                RSum([q \in 1..Len(face.pts) |->
                        RMul(RMul(face.pts[q].tr_phi[sup[a]],
                                  face.pts[q].tr_phi[sup[b]]), face.pts[q].JxW)])]])
      r   == AsSeq([a \in 1..n |->
                RSum([q \in 1..Len(face.pts) |->
                        RMul(RMul(face.pts[q].tr_phi[sup[a]],
                                  face.pts[q].solution_value), face.pts[q].JxW)])])
  IN  vmult(gauss_jordan(M).inverse, r)

(* the closed ConstraintMatrix: constrained skeleton dof |-> its value (no *)
(* hanging nodes on the meshes modelled)                                   *)
make_constraints(cells) ==
  LET D == UNION {UNION {{<<c, f, k>> : k \in 1..Len(cells[c].faces[f].tr_support)} :
                           f \in {g \in 1..Len(cells[c].faces) :
                                    IsDirichletFace(cells[c].faces[g])}} :
                    c \in 1..Len(cells)}
      dof(t) == cells[t[1]].dof_indices[cells[t[1]].faces[t[2]].tr_support[t[3]]]
  IN  [I \in {dof(t) : t \in D} |->
         LET t == CHOOSE t \in D : dof(t) = I
         IN  project_face(cells[t[1]].faces[t[2]])[t[3]]]

(***************************************************************************)
(* The meshes and the data of a run                                        *)
(***************************************************************************)
NCycles == 10

MaxCells == 3

NWorkers == 2

MaxTraceValue == 1

Workers == 1..NWorkers

(* the boundary_indicator of an interior face                              *)
InteriorId == 255

(* The 1D mesh of n cells on [-1, 1] with the three DoFHandlers            *)
(* distributed: cell c has the skeleton dofs c and c+1 and its own         *)
(* interior and recovery dofs; convection is 1 (ConvectionVelocity, dim    *)
(* 1), every boundary face has indicator 0 (subdivided_hyper_cube)         *)
ChainCells(n, degree) ==
  AsSeq([c \in 1..n |->
     LET h   == Rat(2, n)
         atb == <<c = 1, c = n>>
         bi  == <<IF c = 1 THEN 0 ELSE InteriorId, IF c = n THEN 0 ELSE InteriorId>>
     IN  IF degree = 0
         THEN ElemP0Line(h, 1, c, 2, atb, bi, c - 1, 2 * (c - 1), 2 * (c - 1))
         ELSE ElemP1Line(h, 1, c, 2, atb, bi, c - 1, 4 * (c - 1), 3 * (c - 1))])

(* what the linear solver may leave in solution: it is an external         *)
(* collaborator, so any vector of a small set                              *)
SolverResults(n) ==
  {AsSeq([i \in 1..n |-> R(v)]) : v \in 0..MaxTraceValue}
    \cup {AsSeq([i \in 1..n |-> R(i)])}

(***************************************************************************)
(* The state                                                               *)
(***************************************************************************)
VARIABLES
  cycle,            \* run(): the loop counter
  pc,               \* run(): the call in progress
  degree,           \* fe.degree
  cells,            \* the triangulation's active cells, with their tables
  constraints,      \* the ConstraintMatrix
  system_matrix,    \* the global skeleton matrix (<<>> when cleared)
  system_rhs,
  solution,         \* the skeleton solution
  solution_local,   \* the interior solution
  solution_u_post,  \* the recovery solution
  pass,             \* WorkStream::run in progress: trace_reconstruct, next, copied
  workers,          \* per worker: st, cell, its scratch and its task_data
  copying,          \* the workers whose task_data the copier is accumulating
  post_cell,        \* postprocess(): the cell the loop is at
  post_scratch,     \* postprocess(): cell_matrix, cell_rhs, cell_sol
  phases,           \* history: the phases started in this cycle, in order
  written_local,    \* history: interior dof |-> the cells that wrote it this cycle
  written_post,     \* history: recovery dof |-> the cells that wrote it this cycle
  ll_presolve,      \* history: cell |-> ll_matrix as inverted on the pre-solve pass
  exception,        \* the exception on its way out of run(), or "none"
  triangulation,    \* the hyper-cube mesh: dim, cells per direction,
                    \* and refine_global's argument and loop counter
  mesh_sizes        \* history: the cells per direction of the cycles so far

vars == <<cycle, pc, degree, cells, constraints, system_matrix, system_rhs,
          solution, solution_local, solution_u_post, pass, workers, copying,
          post_cell, post_scratch, phases, written_local, written_post,
          ll_presolve, exception, triangulation, mesh_sizes>>

(* Triangulation<dim> with no cell; times is refine_global's argument, an  *)
(* unsigned int kept as its two 16-bit halves, done its loop counter       *)
EmptyTriangulation(dim) ==
  [dim |-> dim, per_direction |-> 0, times |-> <<0, 0>>, done |-> 0]

IdleWorker(n_loc, n_tr, tr) ==
  [st |-> "idle", cell |-> 0, scratch |-> ScratchData(n_loc, n_tr, tr),
   task_data |-> PerTaskData(n_tr, tr)]

InitCommon ==
  /\ cycle = 0
  /\ constraints = <<>>
  /\ system_matrix = <<>>
  /\ system_rhs = <<>>
  /\ solution = <<>>
  /\ solution_local = <<>>
  /\ solution_u_post = <<>>
  /\ pass = [trace_reconstruct |-> FALSE, next |-> 1, copied |-> 0]
  /\ workers = [w \in Workers |-> IdleWorker(0, 0, FALSE)]
  /\ copying = {}
  /\ post_cell = 0
  /\ post_scratch = [cell_matrix |-> <<>>, cell_rhs |-> <<>>, cell_sol |-> <<>>]
  /\ phases = <<>>
  /\ written_local = <<>>
  /\ written_post = <<>>
  /\ ll_presolve = <<>>
  /\ exception = "none"
  /\ triangulation = EmptyTriangulation(1)
  /\ mesh_sizes = <<>>

Init ==
  /\ InitCommon
  /\ pc = "refine"
  /\ degree \in {0, 1}
  /\ cells = <<>>

(***************************************************************************)
(* run(): one action per call, the WorkStream passes cell by cell          *)
(***************************************************************************)
(* refine_grid (cycle): two cells in cycle 0; later a mesh of at most      *)
(* MaxCells cells, whichever the refinement mode makes                     *)
RefineGrid ==
  /\ pc = "refine"
  /\ UNCHANGED <<triangulation, mesh_sizes>>
  /\ \E n \in 2..MaxCells :
       /\ cycle = 0 => n = 2
       /\ cells' = ChainCells(n, degree)
  /\ pc' = "setup"
  /\ phases' = <<"refine">>
  /\ written_local' = <<>>
  /\ written_post' = <<>>
  /\ ll_presolve' = <<>>
  /\ UNCHANGED exception
  /\ UNCHANGED <<cycle, degree, constraints, system_matrix, system_rhs, solution,
                 solution_local, solution_u_post, pass, workers, copying,
                 post_cell, post_scratch>>

(* setup_system() without solution_u_post.reinit: the vector is left as it *)
(* is when the number of recovery dofs has not changed                     *)
setup_vectors_stale(cs, old) ==
  [solution |-> ZeroVec(n_dofs(cs)),
   system_rhs |-> ZeroVec(n_dofs(cs)),
   solution_local |-> ZeroVec(n_dofs_local(cs)),
   solution_u_post |-> IF Len(old.solution_u_post) = n_dofs_u_post(cs)
                       THEN old.solution_u_post
                       ELSE ZeroVec(n_dofs_u_post(cs))]

(* setup_system(): the vectors reinit'ed (resized and zeroed), the         *)
(* constraints rebuilt, the matrix reinit'ed                               *)
setup_vectors(cs, old) ==
  [solution |-> ZeroVec(n_dofs(cs)),
   system_rhs |-> ZeroVec(n_dofs(cs)),
   solution_local |-> ZeroVec(n_dofs_local(cs)),
   solution_u_post |-> ZeroVec(n_dofs_u_post(cs))]

SetupSystem ==
  /\ UNCHANGED <<ll_presolve, exception, triangulation, mesh_sizes>>
  /\ pc = "setup"
  /\ LET v == setup_vectors(cells, [solution |-> solution, system_rhs |-> system_rhs,
                                    solution_local |-> solution_local,
                                    solution_u_post |-> solution_u_post])
     IN  /\ solution' = v.solution
         /\ system_rhs' = v.system_rhs
         /\ solution_local' = v.solution_local
         /\ solution_u_post' = v.solution_u_post
  /\ constraints' = make_constraints(cells)
  /\ system_matrix' = ZeroMat(n_dofs(cells), n_dofs(cells))
  /\ written_local' = [i \in 1..n_dofs_local(cells) |-> {}]
  /\ written_post' = [i \in 1..n_dofs_u_post(cells) |-> {}]
  /\ pc' = "assemble"
  /\ phases' = Append(phases, "setup")
  /\ UNCHANGED <<cycle, degree, cells, pass, workers, copying, post_cell, post_scratch>>

(* fe_local.dofs_per_cell, fe.dofs_per_cell, fe_u_post.dofs_per_cell: the   *)
(* sizes of the element, which every cell of the mesh shares; on a mesh    *)
(* without cells the blocks sized by them are never used                   *)
dofs_per_cell(cs) ==
  IF cs = <<>> THEN [n_loc |-> 0, n_tr |-> 0, n_post |-> 0]
  ELSE [n_loc |-> cs[1].n_loc, n_tr |-> cs[1].n_tr, n_post |-> cs[1].n_post]

(* assemble_system (trace_reconstruct) up to the call of WorkStream::run:  *)
(* the sample scratch and task_data are built and copied per worker        *)
AssembleSystem ==
  /\ UNCHANGED <<ll_presolve, exception, triangulation, mesh_sizes>>
  /\ pc \in {"assemble", "reconstruct"}
  /\ LET tr == (pc = "reconstruct")
     IN  /\ pass' = [trace_reconstruct |-> tr, next |-> 1, copied |-> 0]
         /\ workers' = [w \in Workers |->
                          IdleWorker(dofs_per_cell(cells).n_loc,
                                     dofs_per_cell(cells).n_tr, tr)]
  /\ phases' = Append(phases, pc)
  /\ pc' = "workstream"
  /\ UNCHANGED <<cycle, degree, cells, constraints, system_matrix, system_rhs,
                 solution, solution_local, solution_u_post, copying, post_cell,
                 post_scratch, written_local, written_post>>

(* assemble_system_one_cell adding its condensed blocks to the global      *)
(* system itself                                                           *)
one_cell_global_direct(r, A, b, cons) ==
  copy_local_to_global(r.task_data, A, b, cons)

(* what assemble_system_one_cell does to the global system: nothing, the   *)
(* condensed blocks go to task_data                                        *)
one_cell_global(r, A, b, cons) == [A |-> A, b |-> b]

(* a singular block passed over: the statements after gauss_jordan run on  *)
(* whatever the elimination left                                           *)
after_gauss_jordan_unchecked(regular) == "workstream"

(* where run() is after ll_matrix.gauss_jordan(): the statements that      *)
(* follow it in assemble_system_one_cell run only if it returns; when it   *)
(* fails nothing in the call chain up to main handles the failure          *)
after_gauss_jordan(regular) == IF regular THEN "workstream" ELSE "aborted"

(* a worker takes the next cell and runs assemble_system_one_cell on it    *)
WorkerCell(w) ==
  /\ pc = "workstream"
  /\ UNCHANGED <<triangulation, mesh_sizes>>
  /\ workers[w].st = "idle"
  /\ pass.next <= Len(cells)
  /\ \E r \in {assemble_system_one_cell(cells[pass.next], workers[w].scratch,
                                         workers[w].task_data, solution)} :
     LET c == pass.next
         g == one_cell_global(r, system_matrix, system_rhs, constraints)
         idx == reconstruct_indices(cells, c)
     IN  IF after_gauss_jordan(r.regular) = "workstream"
         THEN /\ workers' = [workers EXCEPT ![w] =
                               [st |-> "computed", cell |-> c,
                                scratch |-> r.scratch, task_data |-> r.task_data]]
              /\ pass' = [pass EXCEPT !.next = c + 1]
              /\ system_matrix' = g.A
              /\ system_rhs' = g.b
              /\ IF pass.trace_reconstruct
                 THEN /\ solution_local' = SetAt(solution_local, idx, r.local_values)
                      /\ written_local' =
                           [i \in DOMAIN written_local |->
                              IF i \in Range(idx) THEN written_local[i] \cup {c}
                              ELSE written_local[i]]
                 ELSE UNCHANGED <<solution_local, written_local>>
              /\ ll_presolve' = IF pass.trace_reconstruct THEN ll_presolve
                                ELSE Append(ll_presolve, r.scratch.ll_matrix)
              /\ exception' = IF r.regular THEN exception ELSE "ExcNotRegular"
              /\ pc' = pc
         ELSE /\ pc' = "aborted"
              /\ exception' = "ExcNotRegular"
              /\ UNCHANGED <<workers, pass, system_matrix, system_rhs,
                             solution_local, written_local, ll_presolve>>
  /\ UNCHANGED <<cycle, degree, cells, constraints, solution, solution_u_post,
                 copying, post_cell, post_scratch, phases, written_post>>

(* WorkStream hands the finished cells to the copier one at a time, in the *)
(* order of the cells                                                      *)
CopyBegin(w) ==
  /\ UNCHANGED <<ll_presolve, exception, triangulation, mesh_sizes>>
  /\ pc = "workstream"
  /\ workers[w].st = "computed"
  /\ workers[w].cell = pass.copied + 1
  /\ copying = {}
  /\ copying' = {w}
  /\ UNCHANGED <<cycle, pc, degree, cells, constraints, system_matrix, system_rhs,
                 solution, solution_local, solution_u_post, pass, workers,
                 post_cell, post_scratch, phases, written_local, written_post>>

(* copy_local_to_global (task_data) returns *)
CopyEnd(w) ==
  /\ UNCHANGED <<ll_presolve, exception, triangulation, mesh_sizes>>
  /\ pc = "workstream"
  /\ w \in copying
  /\ \E g \in {copy_local_to_global(workers[w].task_data, system_matrix,
                                     system_rhs, constraints)} :
       /\ system_matrix' = g.A
       /\ system_rhs' = g.b
  /\ copying' = copying \ {w}
  /\ workers' = [workers EXCEPT ![w].st = "idle"]
  /\ pass' = [pass EXCEPT !.copied = @ + 1]
  /\ UNCHANGED <<cycle, pc, degree, cells, constraints, solution, solution_local,
                 solution_u_post, post_cell, post_scratch, phases, written_local,
                 written_post>>

(* the two continuations exchanged *)
after_pass_swapped(trace_reconstruct) ==
  IF trace_reconstruct THEN "solve" ELSE "postprocess"

(* the call that follows a finished pass: solve() after assemble_system    *)
(* (false) in run(), postprocess() after assemble_system (true), the last  *)
(* statement of solve()                                                    *)
after_pass(trace_reconstruct) ==
  IF trace_reconstruct THEN "postprocess" ELSE "solve"

(* WorkStream::run returns: every cell is through worker and copier, and   *)
(* assemble_system's scratch and task_data go out of scope                 *)
WorkStreamDone ==
  /\ UNCHANGED <<ll_presolve, exception, triangulation, mesh_sizes>>
  /\ pc = "workstream"
  /\ pass.copied = Len(cells)
  /\ pc' = after_pass(pass.trace_reconstruct)
  /\ workers' = [w \in Workers |-> IdleWorker(0, 0, FALSE)]
  /\ pass' = [pass EXCEPT !.next = 1, !.copied = 0]
  /\ UNCHANGED <<cycle, degree, cells, constraints, system_matrix, system_rhs,
                 solution, solution_local, solution_u_post, copying,
                 post_cell, post_scratch, phases, written_local, written_post>>

(* solve() without its call of constraints.distribute *)
solve_no_distribute(cons, x) == x

(* solve(), after solver.solve: constraints.distribute (solution) *)
solve_distribute(cons, x) == distribute(cons, x)

(* a failure of the solver passed over: solve() goes on *)
after_solver_unchecked(converged) == "reconstruct"

(* where run() is after solver.solve: solve() has no handler around it, so *)
(* the statements that follow run only if it returns                       *)
after_solver(converged) == IF converged THEN "reconstruct" ELSE "aborted"

(* the matrix kept after the solve *)
solve_keep(A) == A

(* system_matrix.clear() *)
solve_clear(A) == <<>>

(* solve() up to its call of assemble_system (true): the solver returns    *)
(* with its result, then system_matrix.clear() and constraints.distribute  *)
(* (solution); or the solver ends without convergence, leaving its last    *)
(* iterate in solution, and what it throws leaves solve() and run()        *)
Solve ==
  /\ pc = "solve"
  /\ UNCHANGED <<triangulation, mesh_sizes>>
  /\ \E converged \in BOOLEAN, x \in SolverResults(Len(solution)) :
       /\ pc' = after_solver(converged)
       /\ exception' = IF converged THEN "none" ELSE "NoConvergence"
       /\ IF after_solver(converged) = "reconstruct"
          THEN /\ solution' = solve_distribute(constraints, x)
               /\ system_matrix' = solve_clear(system_matrix)
          ELSE /\ solution' = x
               /\ system_matrix' = system_matrix
  /\ phases' = Append(phases, "solve")
  /\ UNCHANGED <<cycle, degree, cells, constraints, system_rhs, solution_local,
                 solution_u_post, pass, workers, copying, post_cell, post_scratch,
                 written_local, written_post, ll_presolve>>

(* postprocess() up to its loop over the cells *)
PostprocessBegin ==
  /\ UNCHANGED <<ll_presolve, exception, triangulation, mesh_sizes>>
  /\ pc = "postprocess"
  /\ post_cell' = 1
  /\ post_scratch' = [cell_matrix |-> ZeroMat(dofs_per_cell(cells).n_post,
                                              dofs_per_cell(cells).n_post),
                      cell_rhs |-> ZeroVec(dofs_per_cell(cells).n_post),
                      cell_sol |-> ZeroVec(dofs_per_cell(cells).n_post)]
  /\ pc' = "postprocessing"
  /\ phases' = Append(phases, "postprocess")
  /\ UNCHANGED <<cycle, degree, cells, constraints, system_matrix, system_rhs,
                 solution, solution_local, solution_u_post, pass, workers, copying,
                 written_local, written_post>>

(* one pass of the loop of postprocess() *)
PostprocessCell ==
  /\ pc = "postprocessing"
  /\ UNCHANGED <<triangulation, mesh_sizes>>
  /\ post_cell <= Len(cells)
  /\ \E r \in {postprocess_cell(cells[post_cell], solution_local)} :
     LET idx == postprocess_indices(cells, post_cell)
     IN  IF r.regular
         THEN /\ post_scratch' = [cell_matrix |-> r.cell_matrix,
                                  cell_rhs |-> r.cell_rhs, cell_sol |-> r.cell_sol]
              /\ solution_u_post' = AddAt(solution_u_post, idx, r.cell_sol)
              /\ written_post' =
                   [i \in DOMAIN written_post |->
                      IF i \in Range(idx) THEN written_post[i] \cup {post_cell}
                      ELSE written_post[i]]
              /\ post_cell' = post_cell + 1
              /\ exception' = exception
              /\ pc' = pc
         ELSE /\ pc' = "aborted"
              /\ exception' = "ExcNotRegular"
              /\ UNCHANGED <<post_scratch, solution_u_post, written_post, post_cell>>
  /\ UNCHANGED <<cycle, degree, cells, constraints, system_matrix, system_rhs,
                 solution, solution_local, pass, workers, copying, phases,
                 written_local, ll_presolve>>

(* postprocess() returns, its local matrix and vectors go out of scope *)
PostprocessDone ==
  /\ UNCHANGED <<ll_presolve, exception, triangulation, mesh_sizes>>
  /\ pc = "postprocessing"
  /\ post_cell > Len(cells)
  /\ pc' = "output"
  /\ post_cell' = 0
  /\ post_scratch' = [cell_matrix |-> <<>>, cell_rhs |-> <<>>, cell_sol |-> <<>>]
  /\ UNCHANGED <<cycle, degree, cells, constraints, system_matrix, system_rhs,
                 solution, solution_local, solution_u_post, pass, workers, copying,
                 phases, written_local, written_post>>

(* the loop running one cycle more *)
after_output_one_more(c) == IF c <= NCycles THEN "refine" ELSE "done"

(* for (cycle=0; cycle<10; ++cycle), the test after the increment *)
after_output(c) == IF c < NCycles THEN "refine" ELSE "done"

(* output_results (cycle), and the loop of run() goes on or ends *)
OutputResults ==
  /\ UNCHANGED <<ll_presolve, exception, triangulation, mesh_sizes>>
  /\ pc = "output"
  /\ cycle' = cycle + 1
  /\ pc' = after_output(cycle + 1)
  /\ phases' = Append(phases, "output")
  /\ UNCHANGED <<degree, cells, constraints, system_matrix, system_rhs, solution,
                 solution_local, solution_u_post, pass, workers, copying,
                 post_cell, post_scratch, written_local, written_post>>

Next ==
  \/ RefineGrid
  \/ SetupSystem
  \/ AssembleSystem
  \/ \E w \in Workers : WorkerCell(w)
  \/ \E w \in Workers : CopyBegin(w)
  \/ \E w \in Workers : CopyEnd(w)
  \/ WorkStreamDone
  \/ Solve
  \/ PostprocessBegin
  \/ PostprocessCell
  \/ PostprocessDone
  \/ OutputResults

Spec == Init /\ [][Next]_vars

(***************************************************************************)
(* The element-level specification: the same calls on a mesh of one cell   *)
(* whose data is an input. The cell is one of the three elements above,    *)
(* its size, its convection and the boundary_indicator of each of its      *)
(* faces drawn from small sets, or of no cell at all; run() is in its last *)
(* cycle.                                                                  *)
(***************************************************************************)
(* boundary_indicator per face of a line cell: 255 marks an interior face *)
LineMarkers ==
  {<<a, b>> : a \in {0, 1, 2, InteriorId}, b \in {0, 1, 2, InteriorId}}

(* boundary_indicator per face (left, right, bottom, top) of a square cell *)
QuadMarkers ==
  {<<0, 0, 0, 0>>, <<0, 1, 2, InteriorId>>, <<1, 0, InteriorId, 0>>,
   <<1, 1, 2, 2>>, <<InteriorId, InteriorId, 0, 1>>}

(* ConvectionVelocity<2>::value at points of [-1, 1]^2: (p[1], -p[0]) *)
QuadConvections == {<<0, 0>>, <<1, -1>>, <<-1, 1>>, <<1, 0>>, <<0, -1>>}

AtBoundary(bi) == AsSeq([k \in 1..Len(bi) |-> bi[k] # InteriorId])

(* malformed data: the cell collapsed, so that JxW is zero at every volume *)
(* quadrature point while the faces are as before                          *)
Collapsed(e) ==
  [e EXCEPT !.vol = AsSeq([q \in 1..Len(e.vol) |-> [e.vol[q] EXCEPT !.JxW = Zero]])]

(* the well-formed cells *)
RegularElements ==
  {ElemP0Line(R(h), 1, 1, 2, AtBoundary(bi), bi, 0, 0, 0) :
     h \in {1, 2}, bi \in LineMarkers}
  \cup {ElemP1Line(R(h), 1, 1, 2, AtBoundary(bi), bi, 0, 0, 0) :
          h \in {1, 2}, bi \in LineMarkers}
  \cup {ElemP0Quad(R(h), c, 1, 2, AtBoundary(bi), bi, 0, 0, 0) :
          h \in {1, 2}, c \in QuadConvections, bi \in QuadMarkers}

(* the well-formed cells and some collapsed ones *)
ElementFamily ==
  RegularElements
  \cup {Collapsed(ElemP0Line(One, 1, 1, 2, AtBoundary(bi), bi, 0, 0, 0)) :
          bi \in LineMarkers}
  \cup {Collapsed(ElemP1Line(One, 1, 1, 2, AtBoundary(bi), bi, 0, 0, 0)) :
          bi \in LineMarkers}
  \cup {Collapsed(ElemP0Quad(One, c, 1, 2, AtBoundary(bi), bi, 0, 0, 0)) :
          c \in QuadConvections, bi \in QuadMarkers}

InitElement ==
  /\ cycle = NCycles - 1
  /\ constraints = <<>>
  /\ system_matrix = <<>>
  /\ system_rhs = <<>>
  /\ solution = <<>>
  /\ solution_local = <<>>
  /\ solution_u_post = <<>>
  /\ pass = [trace_reconstruct |-> FALSE, next |-> 1, copied |-> 0]
  /\ workers = [w \in Workers |-> IdleWorker(0, 0, FALSE)]
  /\ copying = {}
  /\ post_cell = 0
  /\ post_scratch = [cell_matrix |-> <<>>, cell_rhs |-> <<>>, cell_sol |-> <<>>]
  /\ phases = <<"refine">>
  /\ written_local = <<>>
  /\ written_post = <<>>
  /\ ll_presolve = <<>>
  /\ exception = "none"
  /\ triangulation = EmptyTriangulation(1)
  /\ mesh_sizes = <<>>
  /\ pc = "setup"
  /\ cells \in {<<e>> : e \in ElementFamily} \cup {<<>>}
  /\ degree = IF dofs_per_cell(cells).n_loc = 4 THEN 1 ELSE 0

NextElement ==
  \/ SetupSystem
  \/ AssembleSystem
  \/ \E w \in Workers : WorkerCell(w)
  \/ \E w \in Workers : CopyBegin(w)
  \/ \E w \in Workers : CopyEnd(w)
  \/ WorkStreamDone
  \/ Solve
  \/ PostprocessBegin
  \/ PostprocessCell
  \/ PostprocessDone
  \/ OutputResults

SpecElement == InitElement /\ [][NextElement]_vars

(***************************************************************************)
(* The mesh specification: refine_grid under global_refinement, cycle      *)
(* after cycle, on Triangulation<dim> for dim 1, 2 and 3. The mesh is a    *)
(* hyper-cube of equal cells, so it is its number of cells per direction;  *)
(* the calls of run() between two refine_grid are one step.                *)
(***************************************************************************)
Dims == {1, 2, 3}

(* the most passes of refine_global's loop a run is followed through *)
MaxRefinements == 8

(* a value as an unsigned int: modulo 2^32, as its two 16-bit halves *)
U32(t) == <<(t \div 65536) % 65536, t % 65536>>

(* i < times, i an int that fits the lower half *)
LoopLess(i, times) == times[1] > 0 \/ i < times[2]

(* the same coarse mesh in every cycle *)
subdivisions_fixed(c) == 2

(* the first argument of subdivided_hyper_cube: 2 + (cycle % 2) *)
subdivisions(c) == 2 + (c % 2)

(* the argument of refine_global: 3 - dim + cycle / 2, unsigned *)
refine_times(dim, c) == U32(3 - dim + (c \div 2))

InitMesh ==
  /\ cycle = 0
  /\ pc = "refine"
  /\ degree = 1
  /\ cells = <<>>
  /\ constraints = <<>>
  /\ system_matrix = <<>>
  /\ system_rhs = <<>>
  /\ solution = <<>>
  /\ solution_local = <<>>
  /\ solution_u_post = <<>>
  /\ pass = [trace_reconstruct |-> FALSE, next |-> 1, copied |-> 0]
  /\ workers = [w \in Workers |-> IdleWorker(0, 0, FALSE)]
  /\ copying = {}
  /\ post_cell = 0
  /\ post_scratch = [cell_matrix |-> <<>>, cell_rhs |-> <<>>, cell_sol |-> <<>>]
  /\ phases = <<>>
  /\ written_local = <<>>
  /\ written_post = <<>>
  /\ ll_presolve = <<>>
  /\ exception = "none"
  /\ triangulation \in {EmptyTriangulation(d) : d \in Dims}
  /\ mesh_sizes = <<>>

(* cycle 0: GridGenerator::subdivided_hyper_cube (triangulation, 2, -1, 1) *)
FirstMesh ==
  /\ pc = "refine"
  /\ cycle = 0
  /\ triangulation' = [triangulation EXCEPT !.per_direction = 2]
  /\ pc' = "refined"
  /\ UNCHANGED <<cycle, degree, cells, constraints, system_matrix, system_rhs,
                 solution, solution_local, solution_u_post, pass, workers, copying,
                 post_cell, post_scratch, phases, written_local, written_post,
                 ll_presolve, exception, mesh_sizes>>

(* later cycles: triangulation.clear() *)
TriangulationClear ==
  /\ pc = "refine"
  /\ cycle > 0
  /\ triangulation' = EmptyTriangulation(triangulation.dim)
  /\ pc' = "cleared"
  /\ UNCHANGED <<cycle, degree, cells, constraints, system_matrix, system_rhs,
                 solution, solution_local, solution_u_post, pass, workers, copying,
                 post_cell, post_scratch, phases, written_local, written_post,
                 ll_presolve, exception, mesh_sizes>>

(* subdivided_hyper_cube (triangulation, 2+(cycle%2), -1, 1), and the      *)
(* argument of refine_global is evaluated                                  *)
SubdividedHyperCube ==
  /\ pc = "cleared"
  /\ triangulation' = [triangulation EXCEPT
                         !.per_direction = subdivisions(cycle),
                         !.times = refine_times(triangulation.dim, cycle),
                         !.done = 0]
  /\ pc' = "refining"
  /\ UNCHANGED <<cycle, degree, cells, constraints, system_matrix, system_rhs,
                 solution, solution_local, solution_u_post, pass, workers, copying,
                 post_cell, post_scratch, phases, written_local, written_post,
                 ll_presolve, exception, mesh_sizes>>

(* one pass of the loop of refine_global: every cell is halved in every    *)
(* direction                                                               *)
RefineGlobalStep ==
  /\ pc = "refining"
  /\ LoopLess(triangulation.done, triangulation.times)
  /\ triangulation.done < MaxRefinements
  /\ triangulation' = [triangulation EXCEPT !.per_direction = 2 * @,
                                            !.done = @ + 1]
  /\ UNCHANGED <<cycle, pc, degree, cells, constraints, system_matrix, system_rhs,
                 solution, solution_local, solution_u_post, pass, workers, copying,
                 post_cell, post_scratch, phases, written_local, written_post,
                 ll_presolve, exception, mesh_sizes>>

(* refine_global returns, and refine_grid with it *)
RefineGlobalDone ==
  /\ pc = "refining"
  /\ ~LoopLess(triangulation.done, triangulation.times)
  /\ pc' = "refined"
  /\ UNCHANGED <<cycle, degree, cells, constraints, system_matrix, system_rhs,
                 solution, solution_local, solution_u_post, pass, workers, copying,
                 post_cell, post_scratch, phases, written_local, written_post,
                 ll_presolve, exception, triangulation, mesh_sizes>>

(* the other calls of the cycle, which leave the triangulation alone, and  *)
(* the loop of run() goes on or ends                                       *)
RestOfCycle ==
  /\ pc = "refined"
  /\ mesh_sizes' = Append(mesh_sizes, triangulation.per_direction)
  /\ cycle' = cycle + 1
  /\ pc' = after_output(cycle + 1)
  /\ UNCHANGED <<degree, cells, constraints, system_matrix, system_rhs,
                 solution, solution_local, solution_u_post, pass, workers, copying,
                 post_cell, post_scratch, phases, written_local, written_post,
                 ll_presolve, exception, triangulation>>

NextMesh ==
  \/ FirstMesh
  \/ TriangulationClear
  \/ SubdividedHyperCube
  \/ RefineGlobalStep
  \/ RefineGlobalDone
  \/ RestOfCycle

SpecMesh == InitMesh /\ [][NextMesh]_vars

(***************************************************************************)
(* The properties                                                          *)
(***************************************************************************)
(* worker w has run assemble_system_one_cell in pre-solve mode and its     *)
(* task_data waits for the copier                                          *)
Condensed(w) ==
  /\ pc = "workstream"
  /\ pass.trace_reconstruct = FALSE
  /\ workers[w].st = "computed"

(* FL * LL^-1 with the blocks as the loops populate them; the inverse is   *)
(* the one gauss_jordan left in the worker's scratch, checked against      *)
(* ll_assembled where it is used                                           *)
FLLLinv(w) ==
  MatMul(fl_assembled(cells[workers[w].cell]), workers[w].scratch.ll_matrix)

SchurTerm(w) == MatMul(FLLLinv(w), lf_assembled(cells[workers[w].cell]))

RhsTerm(w) == MatVec(FLLLinv(w), l_rhs_source(cells[workers[w].cell]))

IsInverseOfLL(w) ==
  MatMul(workers[w].scratch.ll_matrix, ll_assembled(cells[workers[w].cell]))
    = IdentityMat(cells[workers[w].cell].n_loc)

(* C1 as stated: what the worker hands to global assembly is               *)
(* FF - FL * LL^-1 * LF and f_rhs - FL * LL^-1 * l_rhs, the blocks taken   *)
(* as populated just before the elimination                                *)
C1_AsStated ==
  \A w \in Workers :
    Condensed(w) =>
      /\ workers[w].task_data.cell_matrix =
           MatSub(ff_assembled(cells[workers[w].cell]), SchurTerm(w))
      /\ workers[w].task_data.cell_vector =
           VecSub(f_rhs_assembled(cells[workers[w].cell]), RhsTerm(w))

(* C1 amended: with the blocks as populated (fl_matrix is accumulated with *)
(* -=, so it holds the negated coupling), what the worker hands to global  *)
(* assembly is FF + FL * LL^-1 * LF and f_rhs + FL * LL^-1 * l_rhs         *)
C1_Condensation ==
  \A w \in Workers :
    Condensed(w) =>
      /\ IsInverseOfLL(w)
      /\ workers[w].task_data.cell_matrix =
           MatAdd(ff_assembled(cells[workers[w].cell]), SchurTerm(w))
      /\ workers[w].task_data.cell_vector =
           VecAdd(f_rhs_assembled(cells[workers[w].cell]), RhsTerm(w))

(* a cell is condensed whose FF, Schur term and right-hand side term are   *)
(* all non-zero                                                            *)
C1_Witness ==
  \E w \in Workers :
    /\ Condensed(w)
    /\ LET cell == cells[workers[w].cell]
       IN  /\ ff_assembled(cell) # ZeroMat(cell.n_tr, cell.n_tr)
           /\ f_rhs_assembled(cell) # ZeroVec(cell.n_tr)
           /\ SchurTerm(w) # ZeroMat(cell.n_tr, cell.n_tr)
           /\ RhsTerm(w) # ZeroVec(cell.n_tr)

(* the cells the reconstruct pass of this cycle has written *)
Reconstructed ==
  IF pc = "workstream" /\ pass.trace_reconstruct THEN 1..(pass.next - 1)
  ELSE IF pc \in {"postprocess", "postprocessing", "output"} THEN 1..Len(cells)
  ELSE {}

(* the interior values of cell c in solution_local *)
InteriorOf(c) ==
  AsSeq([k \in 1..cells[c].n_loc |->
           solution_local[reconstruct_indices(cells, c)[k]]])

(* the trace values of cell c in solution *)
TraceOf(c) ==
  AsSeq([j \in 1..cells[c].n_tr |-> solution[cells[c].dof_indices[j]]])

(* C2: the interior values x the reconstruct pass writes for a cell solve  *)
(* the uncondensed local system LL x + LF lambda = l_rhs, with LL, LF and  *)
(* the source part of l_rhs as the pre-solve pass builds them and lambda   *)
(* the cell's trace values in solution                                     *)
C2_RoundTrip ==
  \A c \in Reconstructed :
    VecAdd(MatVec(ll_assembled(cells[c]), InteriorOf(c)),
           MatVec(lf_assembled(cells[c]), TraceOf(c)))
      = l_rhs_source(cells[c])

(* a cell is reconstructed from a trace that contributes to its l_rhs *)
C2_Witness ==
  \E c \in Reconstructed :
    /\ MatVec(lf_assembled(cells[c]), TraceOf(c)) # ZeroVec(cells[c].n_loc)
    /\ l_rhs_source(cells[c]) # ZeroVec(cells[c].n_loc)
    /\ InteriorOf(c) # ZeroVec(cells[c].n_loc)

(* the face quadrature points of the cells of the mesh, as <<c, f, q>> *)
FacePoints ==
  UNION {UNION {{<<c, f, q>> : q \in 1..Len(cells[c].faces[f].pts)} :
                  f \in 1..Len(cells[c].faces)} : c \in 1..Len(cells)}

FacePoint(t) == cells[t[1]].faces[t[2]].pts[t[3]]

(* worker w has run assemble_system_one_cell on a cell, in either mode *)
Computed(w) == pc = "workstream" /\ workers[w].st = "computed"

(* C3: at every face quadrature point of every cell tau_stab is strictly   *)
(* positive, whichever way the convection points relative to the normal    *)
C3_TauPositive ==
  \A t \in FacePoints :
    RPos(tau_stab(FacePoint(t).convection, FacePoint(t).normal))

(* in both modes a worker has assembled a cell with an inflow face, an     *)
(* outflow face and a face the convection is tangential to                 *)
C3_Witness ==
  /\ \E w \in Workers : Computed(w) /\ pass.trace_reconstruct
  /\ phases[Len(phases)] = "reconstruct"
  /\ \E t \in FacePoints :
       RPos(RNeg(Dot(FacePoint(t).convection, FacePoint(t).normal)))
  /\ \E t \in FacePoints :
       RPos(Dot(FacePoint(t).convection, FacePoint(t).normal))
  /\ \E t \in FacePoints :
       Dot(FacePoint(t).convection, FacePoint(t).normal) = Zero

(* the cells postprocess() has handled in this cycle *)
Postprocessed ==
  IF pc = "postprocessing" THEN 1..(post_cell - 1)
  ELSE IF pc = "output" THEN 1..Len(cells)
  ELSE {}

(* the recovery values of cell c in solution_u_post *)
RecoveryOf(c) ==
  AsSeq([j \in 1..cells[c].n_post |->
           solution_u_post[postprocess_indices(cells, c)[j]]])

(* the integral of the recovery field over cell c *)
RecoveryIntegral(c) ==
  RSum([q \in 1..Len(cells[c].post) |->
          RMul(Dot(RecoveryOf(c), cells[c].post[q].shape_value),
               cells[c].post[q].JxW)])

(* the integral of the reconstructed scalar over cell c *)
InteriorIntegral(c) ==
  RSum([q \in 1..Len(cells[c].post) |->
          RMul(u_value(cells[c], cells[c].post[q], solution_local),
               cells[c].post[q].JxW)])

(* C4: once postprocess() has handled a cell, the integral of the recovery *)
(* field over the cell is the integral of the reconstructed scalar there   *)
C4_Conservation ==
  \A c \in Postprocessed : RecoveryIntegral(c) = InteriorIntegral(c)

(* a cell is post-processed whose integral is not zero and whose recovery  *)
(* field is not constant                                                   *)
C4_Witness ==
  \E c \in Postprocessed :
    /\ InteriorIntegral(c) # Zero
    /\ \E j \in 1..cells[c].n_post : RecoveryOf(c)[j] # RecoveryOf(c)[1]

(* the calls of one cycle of run(), in the order of the source *)
PhaseOrder ==
  <<"refine", "setup", "assemble", "solve", "reconstruct", "postprocess", "output">>

IsPrefix(s, t) == Len(s) <= Len(t) /\ s = SubSeq(t, 1, Len(s))

(* C5: within a cycle the phases start once each and in the order refine,  *)
(* setup, assemble, solve, reconstruct, postprocess, output; the           *)
(* reconstruct pass runs only after the solve of the cycle, and            *)
(* post-processing starts only when the reconstruct pass has written every *)
(* cell                                                                    *)
C5_PhaseOrder ==
  /\ IsPrefix(phases, PhaseOrder)
  /\ (pc = "done" \/ (pc = "refine" /\ cycle > 0)) => phases = PhaseOrder
  /\ (pc = "workstream" /\ pass.trace_reconstruct)
       => phases = SubSeq(PhaseOrder, 1, 5)
  /\ (pc = "workstream" /\ pass.trace_reconstruct = FALSE)
       => phases = SubSeq(PhaseOrder, 1, 3)
  /\ pc = "solve" => (phases = SubSeq(PhaseOrder, 1, 3) /\ pass.copied = 0
                      /\ \A w \in Workers : workers[w].st = "idle")
  /\ pc \in {"postprocess", "postprocessing", "output"}
       => \A c \in 1..Len(cells) :
            \A i \in Range(cells[c].loc_dof_indices) : written_local[i] = {c}

(* a second cycle has come to its post-processing *)
C5_Witness ==
  /\ cycle = 1
  /\ pc = "postprocessing"
  /\ post_cell > Len(cells)
  /\ phases = SubSeq(PhaseOrder, 1, 6)

(* solution holds the constrained values at the constrained dofs *)
IsDistributed ==
  \A i \in DOMAIN constraints : solution[i] = constraints[i]

(* C6: from the return of the linear solve on, whenever the reconstruct    *)
(* pass, post-processing or output can read solution, the constraints have *)
(* been distributed to it                                                  *)
C6_DistributeBeforeRead ==
  (\/ pc \in {"reconstruct", "postprocess", "postprocessing", "output"}
   \/ (pc = "workstream" /\ pass.trace_reconstruct))
    => (Len(solution) = n_dofs(cells) /\ IsDistributed)

(* a worker has read the trace values of a cell with a constrained dof,    *)
(* whose constrained value differs from the values of the free dofs        *)
C6_Witness ==
  /\ pc = "workstream"
  /\ pass.trace_reconstruct
  /\ \E w \in Workers :
       /\ workers[w].st = "computed"
       /\ \E j \in Range(cells[workers[w].cell].dof_indices) :
            /\ j \in DOMAIN constraints
            /\ \E i \in 1..Len(solution) :
                 i \notin DOMAIN constraints /\ solution[i] # solution[j]

(* a step that changes the global matrix or right-hand side during a       *)
(* pass is the return of copy_local_to_global for the one worker being     *)
(* copied                                                                  *)
GlobalWriteIsCopy ==
  (pc = "workstream" /\ pc' = "workstream"
     /\ (system_matrix' # system_matrix \/ system_rhs' # system_rhs))
    => \E w \in Workers :
         /\ copying = {w}
         /\ copying' = {}
         /\ pass.trace_reconstruct = FALSE
         /\ workers[w].cell = pass.copied + 1
         /\ system_matrix' = copy_local_to_global(workers[w].task_data,
                               system_matrix, system_rhs, constraints).A
         /\ system_rhs' = copy_local_to_global(workers[w].task_data,
                            system_matrix, system_rhs, constraints).b

(* C7: during a pass the global matrix and right-hand side are written     *)
(* only by copy_local_to_global, and at most one cell's contribution is    *)
(* being accumulated at any time, in the order of the cells                *)
C7_SerializedAccumulation ==
  /\ [](Cardinality(copying) <= 1)
  /\ [][GlobalWriteIsCopy]_vars

(* the copier accumulates the second cell, which shares a skeleton dof     *)
(* with the first, while the other worker holds a computed cell            *)
C7_Witness ==
  /\ pc = "workstream"
  /\ pass.trace_reconstruct = FALSE
  /\ \E w \in copying :
       /\ workers[w].cell = 2
       /\ Range(cells[1].dof_indices) \cap Range(cells[2].dof_indices) # {}
       /\ \E v \in Workers \ {w} : workers[v].st = "computed"
  /\ system_matrix # ZeroMat(n_dofs(cells), n_dofs(cells))

(* a step changes solution_local only at the interior dofs of the cell the *)
(* worker takes, and solution_u_post only at the recovery dofs of the cell *)
(* the loop of postprocess() is at                                         *)
OwnEntriesOnly ==
  /\ pc = "workstream" =>
       \A i \in 1..Len(solution_local) :
         solution_local'[i] # solution_local[i]
           => i \in Range(cells[pass.next].loc_dof_indices)
  /\ pc = "postprocessing" =>
       \A i \in 1..Len(solution_u_post) :
         solution_u_post'[i] # solution_u_post[i]
           => i \in Range(cells[post_cell].post_dof_indices)

(* C8: in the reconstruct pass a cell writes only its own interior dofs,   *)
(* in post-processing only its own recovery dofs, and no entry of either   *)
(* vector is written by two cells                                          *)
C8_DisjointWrites ==
  /\ [](\A i \in DOMAIN written_local :
          /\ Cardinality(written_local[i]) <= 1
          /\ \A c \in written_local[i] : i \in Range(cells[c].loc_dof_indices))
  /\ [](\A i \in DOMAIN written_post :
          /\ Cardinality(written_post[i]) <= 1
          /\ \A c \in written_post[i] : i \in Range(cells[c].post_dof_indices))
  /\ [][OwnEntriesOnly]_vars

(* two workers have each reconstructed a cell and neither has been copied  *)
C8_Witness ==
  /\ pc = "workstream"
  /\ pass.trace_reconstruct
  /\ pass.copied = 0
  /\ \A w \in Workers : workers[w].st = "computed"
  /\ \E i, j \in DOMAIN written_local :
       written_local[i] = {1} /\ written_local[j] = {2}

(* the faces of the mesh, as <<c, f>> *)
Faces == UNION {{<<c, f>> : f \in 1..Len(cells[c].faces)} : c \in 1..Len(cells)}

FaceOf(t) == cells[t[1]].faces[t[2]]

(* the global skeleton dofs of a face *)
FaceDofs(t) ==
  {cells[t[1]].dof_indices[FaceOf(t).tr_support[k]] :
     k \in 1..Len(FaceOf(t).tr_support)}

(* the skeleton dofs of cell c, by their position in dof_indices, on its   *)
(* boundary faces with indicator m                                         *)
MarkedPositions(c, m) ==
  UNION {Range(cells[c].faces[f].tr_support) :
           f \in {g \in 1..Len(cells[c].faces) :
                    /\ cells[c].faces[g].at_boundary
                    /\ cells[c].faces[g].boundary_indicator = m}}

(* what has gone into f_rhs of the cell of worker w besides the            *)
(* condensation term: the Neumann injection                                *)
Injected(w) == VecSub(workers[w].task_data.cell_vector, RhsTerm(w))

(* the Neumann injection reaches f_rhs exactly at the skeleton dofs of the *)
(* boundary faces with indicator 1, and on the pre-solve pass only         *)
InjectionOnMarkerOne ==
  \A w \in Workers :
    /\ Condensed(w) =>
         \A a \in 1..cells[workers[w].cell].n_tr :
           Injected(w)[a] # Zero <=> a \in MarkedPositions(workers[w].cell, 1)
    /\ (Computed(w) /\ pass.trace_reconstruct) =>
         workers[w].scratch.f_rhs = ZeroVec(cells[workers[w].cell].n_tr)

(* the skeleton dofs of face t are constrained to the projected boundary   *)
(* data                                                                    *)
IsConstrained(t) ==
  \A k \in 1..Len(FaceOf(t).tr_support) :
    LET d == cells[t[1]].dof_indices[FaceOf(t).tr_support[k]]
    IN  d \in DOMAIN constraints /\ constraints[d] = project_face(FaceOf(t))[k]

(* setup_system() of this cycle has built the constraints *)
ConstraintsBuilt == pc \notin {"refine", "setup"}

C10_FreshVectors ==
  /\ pc = "assemble" =>
       /\ solution = ZeroVec(n_dofs(cells))
       /\ system_rhs = ZeroVec(n_dofs(cells))
       /\ solution_local = ZeroVec(n_dofs_local(cells))
       /\ solution_u_post = ZeroVec(n_dofs_u_post(cells))
  /\ \A c \in Postprocessed :
       RecoveryOf(c) = postprocess_cell(cells[c], solution_local).cell_sol
  /\ pc = "postprocessing" =>
       \A c \in post_cell..Len(cells) : RecoveryOf(c) = ZeroVec(cells[c].n_post)

(* a later cycle on a mesh of the size of the first has post-processed its *)
(* cells to a non-zero recovery field                                      *)
C10_Witness ==
  /\ cycle >= 1
  /\ pc = "output"
  /\ Len(cells) = 2
  /\ \A c \in 1..Len(cells) : RecoveryOf(c) # ZeroVec(cells[c].n_post)

(* nothing of the second half of a cycle has happened: no interior value   *)
(* and no recovery value is written                                        *)
NothingDownstream ==
  /\ solution_local = ZeroVec(n_dofs_local(cells))
  /\ solution_u_post = ZeroVec(n_dofs_u_post(cells))
  /\ \A i \in DOMAIN written_local : written_local[i] = {}
  /\ \A i \in DOMAIN written_post : written_post[i] = {}

(* C11: when the linear solver ends without convergence, what it throws    *)
(* leaves solve(): solution is as the solver left it, with no constraint   *)
(* distributed and the matrix not cleared, and in that cycle no reconstruct *)
(* pass, no post-processing and no output follows, nor any later step      *)
C11_SolverFailureFatal ==
  /\ [](exception = "NoConvergence" =>
          /\ pc = "aborted"
          /\ phases = SubSeq(PhaseOrder, 1, 4)
          /\ Len(system_matrix) = n_dofs(cells)
          /\ NothingDownstream)
  /\ [][/\ exception # "NoConvergence"
        /\ exception' = "NoConvergence" =>
             (pc = "solve" /\ solution' \in SolverResults(Len(solution)))]_vars

(* the solver has failed in a later cycle, on a system with constrained    *)
(* dofs that solution does not satisfy                                     *)
C11_Witness ==
  /\ exception = "NoConvergence"
  /\ cycle >= 1
  /\ DOMAIN constraints # {}
  /\ ~IsDistributed

(* the cell whose assemble_system_one_cell failed: the one the pass was at *)
FailedCell == pass.next

(* C12: when ll_matrix of a cell is not invertible at gauss_jordan, the    *)
(* cycle is aborted with the pass at that cell: the cell never reaches the *)
(* copier, so nothing of it is accumulated into the global system, none of *)
(* its interior values is written, and no later step follows               *)
C12_SingularBlockFatal ==
  /\ [](exception = "ExcNotRegular" =>
          /\ pc = "aborted"
          /\ phases[Len(phases)] \in {"assemble", "reconstruct"}
          /\ FailedCell \in 1..Len(cells)
          /\ ~gauss_jordan(ll_assembled(cells[FailedCell])).regular
          /\ pass.copied < FailedCell
          /\ \A w \in Workers :
               workers[w].st = "computed" => workers[w].cell < FailedCell
          /\ \A i \in Range(cells[FailedCell].loc_dof_indices) :
               written_local[i] = {} /\ solution_local[i] = Zero
          /\ (FailedCell = 1 =>
                /\ system_matrix = ZeroMat(n_dofs(cells), n_dofs(cells))
                /\ system_rhs = ZeroVec(n_dofs(cells))))
  /\ [][exception # "ExcNotRegular"]_vars

(* the pre-solve pass has been aborted at a collapsed cell with a          *)
(* constrained face, whose source term is not zero                         *)
C12_Witness ==
  /\ exception = "ExcNotRegular"
  /\ pc = "aborted"
  /\ DOMAIN constraints # {}
  /\ \E f \in 1..Len(cells[FailedCell].faces) :
       IsNeumannFace(cells[FailedCell].faces[f])

LastPostprocessed == post_cell - 1

JustPostprocessed == pc = "postprocessing" /\ post_cell > 1

(* the integral over cell c of a function of the quadrature point *)
CellIntegral(c, X(_)) ==
  RSum([q \in 1..Len(cells[c].post) |->
          RMul(X(cells[c].post[q]), cells[c].post[q].JxW)])

(* int grad phi_i . grad phi_j, int phi_j and int phi_1 phi_j over cell c *)
GradGrad(c, i, j) ==
  LET X(pt) == Dot(pt.shape_grad[i], pt.shape_grad[j]) IN CellIntegral(c, X)

ShapeIntegral(c, j) ==
  LET X(pt) == pt.shape_value[j] IN CellIntegral(c, X)

MassEntry(c, j) ==
  LET X(pt) == RMul(pt.shape_value[1], pt.shape_value[j]) IN CellIntegral(c, X)

(* the right-hand side: the integral of the reconstructed scalar in row 0  *)
(* (here 1), minus the gradient tested with the reconstructed flux below   *)
RecoveryRhs(c) ==
  AsSeq([i \in 1..cells[c].n_post |->
     LET U(pt) == u_value(cells[c], pt, solution_local)
         G(pt) == Dot(pt.shape_grad[i], u_gradient(cells[c], pt, solution_local))
     IN  IF i = 1 THEN CellIntegral(c, U) ELSE RNeg(CellIntegral(c, G))])

(* the matrix gauss_jordan left in cell_matrix is the inverse of M *)
InvertedFrom(M) ==
  MatMul(post_scratch.cell_matrix, M) = IdentityMat(Len(M))

(* C15 as stated: row 0 of the recovery matrix is the mass-matrix row      *)
(* int phi_0 phi_j, the other rows int grad phi_i . grad phi_j, with the   *)
(* right-hand side as above                                                *)
C15_AsStated ==
  JustPostprocessed =>
    /\ InvertedFrom(AsMat([i \in 1..cells[LastPostprocessed].n_post |->
                             [j \in 1..cells[LastPostprocessed].n_post |->
                                IF i = 1 THEN MassEntry(LastPostprocessed, j)
                                ELSE GradGrad(LastPostprocessed, i, j)]]))
    /\ post_scratch.cell_rhs = RecoveryRhs(LastPostprocessed)

(* C15 amended: row 0 of the recovery matrix holds the integrals of the    *)
(* shape functions, entry (0, j) = int phi_j, the other rows               *)
(* int grad phi_i . grad phi_j; the right-hand side is the integral of the *)
(* reconstructed scalar in row 0 and minus the gradient tested with the    *)
(* reconstructed flux in the other rows                                    *)
C15_RowZero ==
  JustPostprocessed =>
    /\ InvertedFrom(AsMat([i \in 1..cells[LastPostprocessed].n_post |->
                             [j \in 1..cells[LastPostprocessed].n_post |->
                                IF i = 1 THEN ShapeIntegral(LastPostprocessed, j)
                                ELSE GradGrad(LastPostprocessed, i, j)]]))
    /\ post_scratch.cell_rhs = RecoveryRhs(LastPostprocessed)

(* a cell has been post-processed whose right-hand side is not zero in any *)
(* row and whose mass-matrix row differs from the row of integrals         *)
C15_Witness ==
  /\ JustPostprocessed
  /\ \A i \in 1..cells[LastPostprocessed].n_post : post_scratch.cell_rhs[i] # Zero
  /\ \E j \in 1..cells[LastPostprocessed].n_post :
       MassEntry(LastPostprocessed, j) # ShapeIntegral(LastPostprocessed, j)

(* from the return of the linear solve to the next cycle's setup_system *)
SolveReturned ==
  \/ exception = "none" /\ \E i \in DOMAIN phases : phases[i] = "solve"
  \/ cycle > 0 /\ pc \in {"refine", "setup"}

(* C16: from the moment the linear solve returns until the next cycle's    *)
(* setup_system the global matrix stays released and no step changes the   *)
(* global matrix or the global right-hand side; on the reconstruct pass    *)
(* every task_data carries the flag that makes copy_local_to_global a      *)
(* no-op, so the copier accumulates nothing                                *)
C16_GlobalSystemUntouched ==
  /\ [](SolveReturned => system_matrix = <<>>)
  /\ [](pc = "workstream" /\ pass.trace_reconstruct =>
          \A w \in Workers : workers[w].task_data.trace_reconstruct)
  /\ [][SolveReturned /\ pc # "setup" =>
          /\ system_matrix' = system_matrix
          /\ system_rhs' = system_rhs]_vars

(* the copier has been through a cell of the reconstruct pass and the      *)
(* right-hand side assembled before the solve is still there               *)
C16_Witness ==
  /\ pc = "workstream"
  /\ pass.trace_reconstruct
  /\ pass.copied >= 1
  /\ \E i \in DOMAIN system_rhs : system_rhs[i] # Zero

(* assemble_system_one_cell for cell c on scratch and task_data as their   *)
(* constructors leave them, in the mode of the pass in progress            *)
OnFreshScratch(c) ==
  assemble_system_one_cell(
    cells[c],
    ScratchData(cells[c].n_loc, cells[c].n_tr, pass.trace_reconstruct),
    PerTaskData(cells[c].n_tr, pass.trace_reconstruct),
    solution)

(* worker w takes a cell on scratch it has used before, where the          *)
(* elimination of the cell before has left its inverse: the step of        *)
(* assemble_system_one_cell on reused blocks                               *)
TakesCell(w) ==
  /\ workers[w].st = "idle"
  /\ workers'[w].st = "computed"
  /\ workers[w].scratch.ll_matrix # ZeroLike(workers[w].scratch.ll_matrix)

TraceProbes ==
  {ZeroVec(Len(solution)), AsSeq([i \in 1..Len(solution) |-> One])}

(* the four blocks the pre-solve pass alone fills *)
FaceBlocks(scratch) ==
  <<scratch.lf_matrix, scratch.fl_matrix, scratch.ff_matrix, scratch.f_rhs>>

(* C18: on the pre-solve pass a cell's LF, FL, FF and f_rhs are populated  *)
(* (FF and f_rhs then carry the condensation products on top) and l_rhs is *)
(* the volumetric source alone, whatever the trace vector holds; on the    *)
(* reconstruct pass no step of the pass changes LF, FL, FF or f_rhs of a   *)
(* scratch, and l_rhs is the volumetric source minus the face contribution *)
(* of the solved trace                                                     *)
C18_ModeSplit ==
  /\ [](\A w \in Workers : Condensed(w) =>
          LET cell == cells[workers[w].cell]
              s    == workers[w].scratch
          IN  /\ s.lf_matrix = lf_assembled(cell)
              /\ s.fl_matrix = fl_assembled(cell)
              /\ s.ff_matrix = MatAdd(ff_assembled(cell),
                                      MatMul(s.tmp_matrix, s.lf_matrix))
              /\ s.f_rhs = VecAdd(f_rhs_assembled(cell),
                                  MatVec(s.tmp_matrix, s.l_rhs))
              /\ s.l_rhs = l_rhs_source(cell)
              /\ \A x \in TraceProbes :
                   assemble_system_one_cell(
                     cell, ScratchData(cell.n_loc, cell.n_tr, FALSE),
                     PerTaskData(cell.n_tr, FALSE), x).scratch = s)
  /\ [](\A w \in Workers : Computed(w) /\ pass.trace_reconstruct =>
          LET cell == cells[workers[w].cell]
          IN  workers[w].scratch.l_rhs =
                VecSub(l_rhs_source(cell), l_rhs_trace(cell, solution)))
  /\ [][pc = "workstream" /\ pass.trace_reconstruct /\ pc' = "workstream" =>
          \A w \in Workers :
            FaceBlocks(workers'[w].scratch) = FaceBlocks(workers[w].scratch)]_vars

(* a cell has been through the reconstruct pass with a source and a trace  *)
(* contribution in l_rhs, on a cell whose pre-solve blocks are not zero    *)
C18_Witness ==
  /\ pc = "workstream"
  /\ pass.trace_reconstruct
  /\ \E w \in Workers :
       /\ workers[w].st = "computed"
       /\ LET cell == cells[workers[w].cell]
          IN  /\ l_rhs_source(cell) # ZeroVec(cell.n_loc)
              /\ l_rhs_trace(cell, solution) # ZeroVec(cell.n_loc)
              /\ lf_assembled(cell) # ZeroMat(cell.n_loc, cell.n_tr)
              /\ ff_assembled(cell) # ZeroMat(cell.n_tr, cell.n_tr)

(* run() has returned, or an exception has left it *)
RunEnded == pc \in {"done", "aborted"}

(* the steps of one WorkStream pass taken so far: a cell computed, handed  *)
(* to the copier, copied                                                   *)
PassSteps == (pass.next - 1) + 2 * pass.copied + Cardinality(copying)

(* the most steps one cycle takes, and the steps of the cycle in progress  *)
(* taken so far; an exception counts as its last step                      *)
CycleSteps == 8 * MaxCells + 12

StepsInCycle ==
  CASE pc = "refine"         -> 0
    [] pc = "setup"          -> 1
    [] pc = "assemble"       -> 2
    [] pc = "workstream"     -> IF pass.trace_reconstruct
                                THEN 3 * MaxCells + 6 + PassSteps
                                ELSE 3 + PassSteps
    [] pc = "solve"          -> 3 * MaxCells + 4
    [] pc = "reconstruct"    -> 3 * MaxCells + 5
    [] pc = "postprocess"    -> 6 * MaxCells + 7
    [] pc = "postprocessing" -> 6 * MaxCells + 8 + (post_cell - 1)
    [] pc = "output"         -> 7 * MaxCells + 10
    [] pc = "aborted"        -> CycleSteps - 1
    [] pc = "done"           -> 0

StepsTaken == cycle * CycleSteps + StepsInCycle

(* a step of run() can be taken: a call of run() is due, or a worker can   *)
(* take the next cell, or the copier can take or finish the cell it is at, *)
(* or the pass is through; in postprocess() the loop goes on or ends       *)
CanStep ==
  \/ pc \in {"refine", "setup", "assemble", "solve", "reconstruct",
             "postprocess", "output"}
  \/ /\ pc = "workstream"
     /\ \/ pass.next <= Len(cells) /\ \E w \in Workers : workers[w].st = "idle"
        \/ copying = {} /\ \E w \in Workers : /\ workers[w].st = "computed"
                                              /\ workers[w].cell = pass.copied + 1
        \/ copying # {}
        \/ pass.copied = Len(cells)
  \/ pc = "postprocessing" /\ post_cell <= Len(cells) + 1

(* C19: run() goes through the cycles 0 to NCycles - 1, one after the      *)
(* other, each through all its phases, and returns after the last one; an  *)
(* exception ends run() where it is thrown, and after the end of run()     *)
(* nothing is started; run() always ends: every step takes it further, the *)
(* number of steps is bounded, and it stops nowhere but at its end         *)
C19_RunTermination ==
  /\ [](cycle \in 0..NCycles)
  /\ [](pc = "done" <=> cycle = NCycles)
  /\ [](pc = "done" => phases = PhaseOrder /\ exception = "none")
  /\ [](pc = "aborted" <=> exception # "none")
  /\ [][cycle' # cycle =>
          /\ cycle' = cycle + 1
          /\ phases' = PhaseOrder
          /\ exception' = "none"]_vars
  /\ [][~RunEnded]_vars
  /\ [][StepsTaken' > StepsTaken]_vars
  /\ [](StepsTaken <= NCycles * CycleSteps)
  /\ [](RunEnded \/ CanStep)
  /\ [][CanStep]_vars

(* run() has returned after its last cycle, on the largest mesh *)
C19_Witness ==
  /\ pc = "done"
  /\ cycle = NCycles
  /\ Len(cells) = MaxCells

(* C20: the LL block a cell's reconstruct pass has built and inverted is   *)
(* the one its pre-solve pass of the same cycle built and inverted,        *)
(* whatever the flag                                                       *)
C20_SameLocalBlock ==
  \A w \in Workers : Computed(w) /\ pass.trace_reconstruct =>
    /\ workers[w].cell \in DOMAIN ll_presolve
    /\ workers[w].scratch.ll_matrix = ll_presolve[workers[w].cell]

(* on the reconstruct pass a worker has inverted the block of the second   *)
(* cell on the scratch it had used for the first, every cell having been   *)
(* through the pre-solve pass                                              *)
C20_Witness ==
  /\ pc = "workstream"
  /\ pass.trace_reconstruct
  /\ Len(ll_presolve) = Len(cells)
  /\ \E w \in Workers :
       /\ workers[w].st = "computed"
       /\ workers[w].cell = 2
       /\ pass.copied = 1
       /\ \A v \in Workers \ {w} :
            workers[v].scratch.ll_matrix = ZeroLike(workers[v].scratch.ll_matrix)

(* the condensed blocks of cell c, computed on its own on fresh scratch,   *)
(* added to the global system A, b at the cell's own skeleton dof indices  *)
AddCell(c, g) ==
  LET t == assemble_system_one_cell(
             cells[c], ScratchData(cells[c].n_loc, cells[c].n_tr, FALSE),
             PerTaskData(cells[c].n_tr, FALSE), solution).task_data
  IN  distribute_local_to_global(t.cell_matrix, t.cell_vector,
                                 cells[c].dof_indices, g.A, g.b, constraints)

(* the global system as setup_system leaves it *)
EmptySystem ==
  [A |-> ZeroMat(n_dofs(cells), n_dofs(cells)), b |-> ZeroVec(n_dofs(cells))]

(* every cell added once, from the first to cell k and from the last down  *)
(* to cell k                                                               *)
RECURSIVE AddedUpTo(_)
AddedUpTo(k) == IF k = 0 THEN EmptySystem ELSE AddCell(k, AddedUpTo(k - 1))

RECURSIVE AddedDownTo(_)
AddedDownTo(k) ==
  IF k > Len(cells) THEN EmptySystem ELSE AddCell(k, AddedDownTo(k + 1))

(* the pre-solve pass is through *)
Assembled == pc = "solve"

(* C21: when the pre-solve pass is through, the global matrix and          *)
(* right-hand side hold every cell's condensed blocks once, at the cell's  *)
(* own skeleton dof indices, and are the same whichever way the workers    *)
(* took and finished the cells: the sum in the order of the cells and in   *)
(* the opposite order; the copier takes each cell once, and the indices it *)
(* is handed are those of the cell the worker computed                     *)
C21_AccumulatedOnce ==
  /\ [](Assembled =>
          \A g \in {[A |-> system_matrix, b |-> system_rhs]} :
            /\ g = AddedUpTo(Len(cells))
            /\ g = AddedDownTo(1))
  /\ [](\A w \in copying :
          /\ workers[w].st = "computed"
          /\ workers[w].cell = pass.copied + 1
          /\ pass.trace_reconstruct = FALSE =>
               workers[w].task_data.dof_indices
                 = cells[workers[w].cell].dof_indices)
  /\ [][pc = "workstream" /\ pc' = "workstream" /\ pass'.copied # pass.copied =>
          /\ copying # {}
          /\ pass'.copied = pass.copied + 1]_vars

(* the pre-solve pass is through on the largest mesh, the cells sharing    *)
(* skeleton dofs, with a matrix and a right-hand side that are not zero    *)
C21_Witness ==
  /\ Assembled
  /\ Len(cells) = MaxCells
  /\ cycle >= 1
  /\ system_matrix # ZeroMat(n_dofs(cells), n_dofs(cells))
  /\ system_rhs # ZeroVec(n_dofs(cells))
  /\ \E c, d \in 1..Len(cells) :
       c # d /\ Range(cells[c].dof_indices) \cap Range(cells[d].dof_indices) # {}

(* the cells per direction of the mesh of cycle c *)
CellsPerDirection(dim, c) ==
  IF c = 0 THEN 2 ELSE (2 + (c % 2)) * 2^(3 - dim + (c \div 2))

(* the active cells of a hyper-cube mesh of n cells per direction *)
ActiveCells(dim, n) == n^dim

(* C22: under global_refinement the mesh of cycle 0 has 2 cells per        *)
(* direction and the mesh of a later cycle c is built on a cleared         *)
(* triangulation with (2 + c mod 2) * 2^(3 - dim + c/2) cells per          *)
(* direction; the argument of refine_global is 3 - dim + c/2 itself, with  *)
(* no wrap of the unsigned value, and its loop runs that many times; from  *)
(* each cycle to the next the number of active cells goes up, and the      *)
(* cells per direction never double, so the mesh size is never halved      *)
C22_MeshSequence ==
  /\ [](pc = "refined" =>
          triangulation.per_direction
            = CellsPerDirection(triangulation.dim, cycle))
  /\ [](pc = "cleared" => triangulation.per_direction = 0)
  /\ [][pc = "refine" /\ cycle > 0 => pc' = "cleared"]_vars
  /\ [](pc = "refining" =>
          /\ 3 - triangulation.dim + (cycle \div 2) >= 0
          /\ triangulation.times = <<0, 3 - triangulation.dim + (cycle \div 2)>>
          /\ triangulation.done <= triangulation.times[2])
  /\ [](Len(mesh_sizes) = cycle /\ cycle <= NCycles)
  /\ [](\A c \in 1..(Len(mesh_sizes) - 1) :
          /\ ActiveCells(triangulation.dim, mesh_sizes[c])
               < ActiveCells(triangulation.dim, mesh_sizes[c + 1])
          /\ mesh_sizes[c + 1] # 2 * mesh_sizes[c])

(* run() has gone through its ten meshes in three dimensions, the last     *)
(* one refined four times                                                  *)
C22_Witness ==
  /\ pc = "done"
  /\ triangulation.dim = 3
  /\ Len(mesh_sizes) = NCycles
  /\ triangulation.done = 4

=============================================================================
